---- MODULE Spec2Model ----
(***************************************************************************)
(* Combat core of the arena-survival prototype: the per-frame systems of   *)
(* the damage pipeline, the deferred-destruction lifecycle, the weapon /   *)
(* attack scheduler and the progression engine, as Bevy schedules them.    *)
(*                                                                         *)
(* Time is counted in units of 125 ms (the largest unit that divides every *)
(* interval of the source: 0.25 s damage cooldown, 0.5 s tick rate, 3.0 s  *)
(* attack lifetime, 3.5 s weapon cooldown).  Health and damage are the     *)
(* source's numbers.                                                       *)
(*                                                                         *)
(* Commands (insert / spawn / despawn) are deferred: a system only queues  *)
(* them, and they take effect when the schedule next applies the queues    *)
(* (apply_deferred).  A frame runs the systems in one of the orders of     *)
(* Schedules, each of which respects the ordering edges the source         *)
(* declares and has a sync point between two ordered systems.  A panic     *)
(* (a command on an entity that no longer exists) ends the run.            *)
(*                                                                         *)
(* The experience chain (SpecXP) and the weapon upgrade systems            *)
(* (SpecUpgrade) are specified on their own, and so are the generation of  *)
(* the upgrade choices (SpecChoices), the damage and radius a firing       *)
(* weapon gives its attacks (SpecFire), the handling of collision events   *)
(* (SpecCollision), the session across the states Playing, LevelUp, Paused *)
(* and GameOver with the player's death and the rewards (SpecSession), and *)
(* the timers across a pause (SpecPause).  SpecPatterns runs the frame for  *)
(* a circle of every pattern type, and SpecHealth has the player's Health   *)
(* under contact damage and health pickups.                                *)
(* SpecLookup has the systems that look the player up and the enemy       *)
(* spawner, SpecMenu the level-up menu from its spawn to the confirmed      *)
(* choice, SpecGeo the two collision detectors of collision.rs on bodies   *)
(* at integer positions, SpecOrbs the collection of experience orbs, and   *)
(* SpecBreaks a weapon that is upgraded at every level-up without end.     *)
(***************************************************************************)
EXTENDS Integers, Sequences, FiniteSets, TLC

\* ---------------------------------------------------------------- bounds
\* The modelled window of a run: frames StartTime .. MaxTime.
StartTime == 4
MaxTime == 32
\* Experience model: largest level explored and orbs collected per frame.
MaxLevel == 4
\* Upgrade model: confirmation events pending at once, and the weapon level
\* from which no further upgrade is confirmed.
MaxPending == 2
MaxUpgradeLevel == 8
MaxOrbsPerFrame == 14
\* Choice generation: weapons in the inventory and the highest weapon level.
MaxWeapons == 2
MaxInvLevel == 9
\* Limit breaks taken after the last progression level.
MaxBreaks == 2
\* Collision events read in one pass.
MaxEvents == 2
\* Enemies killed in one session.
MaxKills == 2
\* The time at which the window on pausing opens.
PauseStart == 20
\* Health model: the enemies that can touch the player at once.
MaxTouching == 2

\* Lookup model: the longest frame, in quarter seconds.
MaxFrame == 3
\* Menu model: the level-up menus opened in a run.
MaxMenus == 2
\* The weapon level up to which limit breaks are taken one after another.
MaxBreakLevel == 60
\* Orb model: the collision-start events waiting to be read.
MaxOrbEvents == 3
\* Detector model: where a projectile starts, how far it moves in a
\* sub-step, and where a body stands.
ProjectileStarts == {<<-40, 0>>, <<-40, 40>>}
StepVelocities == {<<5, 0>>, <<30, 0>>, <<0, 5>>}
BodySpots == {<<0, 0>>, <<28, 0>>, <<29, 0>>, <<0, 30>>, <<60, 40>>}

\* ------------------------------------------------------ program constants
DefaultCooldown == 2
TickRate == 4
AttackLifetime == 24
WeaponBaseDuration == 28
WeaponBaseDamage == 10
EnemyMaxHealth == 50
PlayerMaxHealth == 100
\* SpawnTimer: Timer::from_seconds(2.0, Repeating), in quarter seconds.
SpawnEvery == 8
\* "max_enemies: 20" of WaveConfig::default().
max_enemies == 20
\* "upgrade_pool.generate_choices(3)": the most items a level-up menu has.
MenuChoices == 3
\* collision.rs: the radius of a projectile's body and of the player's and
\* an enemy's, the separation bodies keep, the sub-steps of a projectile.
ProjectileRadius == 8
BodyRadius == 14
MIN_SEPARATION == 2
COLLISION_SUBSTEPS == 4
ProjectileHitDamage == 25
ContactDamage == 5
ContactPeriod == 2
AttackPeriod == 14
CooldownReductionPct == 0
DamageMultiplierPct == 100
InitialPierce == 1
EnemyExperienceValue == 10
BaseXp == 100
MAX_WEAPON_LEVEL == 8
WeaponBaseRadius == 64
AreaMultiplierPct == 100
\* A full turn (std::f32::consts::TAU), in units of 1/840 turn.
Tau == 840
DefaultLuck == 20
LuckFactorPct == 2
ContactRate == 10
AttackDamage == 10

\* --------------------------------------------------------------- entities
Player == "P"
Enemies == {"E1"}
Attacks == {"A1", "A2", "A3", "A4"}
Projs == {"J1", "J2"}
Ents == {Player} \cup Enemies \cup Attacks \cup Projs
EntOrder == <<"P", "E1", "A1", "A2", "A3", "A4", "J1", "J2">>

None == "none"
PatternType == {"Protection", "Binding", "Banishment", "Invocation", "Manifestation"}

VARIABLES
  now, delta, gameState, nextState, order, pc, cmds, panicked,
  exists, allocated, health, hasLDT, ldtTime, mfd, mfdsp, bound,
  atkPattern, atkDamage, atkLife, atkLastTick,
  patterns, wElapsed, lastAttack, pierce, touching,
  dmgOld, dmgNew, bindOld, bindNew, deathOld, deathNew, kills,
  deathCount, accepted, hdLog, staleCmds, removedAs,
  damage_bonus, area_bonus, cooldown_bonus,
  xpCurrent, xpLevel, xpAdded, xpLeveled, xpDue,
  pipeline, invLevel, metaLevel, upgEvents, levelQ, commonQ, circleQ,
  upgBase, upgSent,
  chLuck, chRoll, chInv, chCount, chOut,
  fired,
  colHandler, colHealth, colGone, colLog,
  appState, appNext, paused, clock, dt, esc, sysOrder, sysPc,
  pHealth, pLife, expCur, expLevel, orbs, evOld, evNew, evSent, evRead,
  levelUps, interrupts, deathSeen, announced, spawned,
  cdTimer, lifeTimer, last_tick, last_damage, dmgPending, snap,
  ran, written, spawnTimer,
  menuNo, menuItems, menuEnter, menuPc, menuSent,
  projAt, stepVel, bodyAt, colOut, colBy,
  orbLife, orbEvents, orbGain, enemyCount

vars == <<now, delta, gameState, nextState, order, pc, cmds, panicked,
          exists, allocated, health, hasLDT, ldtTime, mfd, mfdsp, bound,
          atkPattern, atkDamage, atkLife, atkLastTick,
          patterns, wElapsed, lastAttack, pierce, touching,
          dmgOld, dmgNew, bindOld, bindNew, deathOld, deathNew, kills,
          deathCount, accepted, hdLog, staleCmds, removedAs,
          damage_bonus, area_bonus, cooldown_bonus,
          xpCurrent, xpLevel, xpAdded, xpLeveled, xpDue,
          pipeline, invLevel, metaLevel, upgEvents, levelQ, commonQ, circleQ,
          upgBase, upgSent,
          chLuck, chRoll, chInv, chCount, chOut,
          fired,
          colHandler, colHealth, colGone, colLog,
          appState, appNext, paused, clock, dt, esc, sysOrder, sysPc,
          pHealth, pLife, expCur, expLevel, orbs, evOld, evNew, evSent, evRead,
          levelUps, interrupts, deathSeen, announced, spawned,
          cdTimer, lifeTimer, last_tick, last_damage, dmgPending, snap,
          ran, written, spawnTimer,
          menuNo, menuItems, menuEnter, menuPc, menuSent,
          projAt, stepVel, bodyAt, colOut, colBy,
          orbLife, orbEvents, orbGain, enemyCount>>

\* The player's Experience component and the progress of the experience chain.
xpVars == <<xpCurrent, xpLevel, xpAdded, xpLeveled, xpDue>>

\* The upgrade pipeline: levels, pending confirmation events, history.
upgVars == <<pipeline, invLevel, metaLevel, upgEvents, levelQ, commonQ, circleQ,
             upgBase, upgSent>>

\* The upgrade menu's choice generation: its inputs and what it returned.
choicesVars == <<chLuck, chRoll, chInv, chCount, chOut>>

\* The attacks of the weapon's last volley.
fireVars == <<fired>>

\* The collision handlers on their own: Health, despawns issued, the
\* events of the last pass; Health and DespawnMarker of the older handler.
collisionVars == <<colHandler, colHealth, colGone, colLog>>

\* The application across its states: the state and the requested one, the
\* virtual clock, the Escape key, and the schedule with the position in it.
frameVars == <<appState, appNext, paused, clock, dt, esc, sysOrder, sysPc>>

\* The player's Health and lifecycle, the Experience component, the orbs on
\* the field and the EntityDeathEvent buffers with their reader's cursor.
rewardVars == <<pHealth, pLife, expCur, expLevel, orbs, evOld, evNew, evSent, evRead>>

\* History: level increments, LevelUp entries, the player's death as
\* death_system saw it, the events sent with a reward, and the events an orb
\* was spawned for.
historyVars == <<levelUps, interrupts, deathSeen, announced, spawned>>

\* The timers of the weapon, of its attack and of the enemy's damage cooldown,
\* the DamageEvent not yet handled, and the timers' remaining times when the
\* pause began.
timerVars == <<cdTimer, lifeTimer, last_tick, last_damage, dmgPending, snap>>

sessionVars == <<frameVars, rewardVars, historyVars, timerVars>>

\* The systems that look the player up: the one that ran last, the
\* components and resources it wrote, the enemy spawn timer and the number
\* of enemies alive.
lookupVars == <<ran, written, spawnTimer, enemyCount>>

\* The level-up menu: the menus opened so far, the items of the open menu,
\* the Enter key, the position in the menu's chain of systems, and the
\* UpgradeConfirmedEvents sent so far.
menuVars == <<menuNo, menuItems, menuEnter, menuPc, menuSent>>

\* The collision detectors of collision.rs: where the projectiles are and
\* how far they move in a sub-step, where the player and the enemies are, the
\* CollisionEvents of the last pass and the system that sent them.
geoVars == <<projAt, stepVel, bodyAt, colOut, colBy>>

\* The experience orbs: each orb's lifecycle, the collision-start events of
\* the tick that name it, and how often its value was added.
orbVars == <<orbLife, orbEvents, orbGain>>

extraVars == <<choicesVars, fireVars, lookupVars, menuVars, geoVars, orbVars, collisionVars, sessionVars>>

\* Variables the combat systems never write.
auxVars == <<order, damage_bonus, area_bonus, cooldown_bonus, xpVars, upgVars,
             extraVars>>

\* Variables only the combat systems write.
combatVars == <<now, delta, order, pc, cmds, panicked, exists, allocated, health,
                hasLDT, ldtTime, mfd, mfdsp, bound, atkPattern, atkDamage,
                atkLife, atkLastTick, wElapsed, lastAttack, pierce, touching,
                dmgOld, dmgNew, bindOld, bindNew, deathOld, deathNew, kills,
                deathCount, accepted, hdLog, staleCmds, removedAs>>

\* Everything the running game, the experience systems and the upgrade
\* systems own.
baseVars == <<combatVars, gameState, nextState, patterns, damage_bonus, area_bonus,
              cooldown_bonus, xpVars, upgVars>>

\* ---------------------------------------------------------------- helpers
Min(a, b) == IF a < b THEN a ELSE b

Index(e) == CHOOSE i \in 1..Len(EntOrder) : EntOrder[i] = e

\* The members of S in entity order (the order a query visits them).
RECURSIVE InOrderFrom(_, _)
InOrderFrom(S, i) ==
  IF i > Len(EntOrder) THEN <<>>
  ELSE IF EntOrder[i] \in S THEN <<EntOrder[i]>> \o InOrderFrom(S, i + 1)
  ELSE InOrderFrom(S, i + 1)

InOrder(S) == InOrderFrom(S, 1)

\* The entity id the next spawn from this pool reserves.
NextFree(pool, alloc) ==
  CHOOSE e \in pool \ alloc : \A f \in pool \ alloc : Index(e) <= Index(f)

\* Lifecycle state of a live entity, read off its marker components.
Marker(e, d, ds) ==
  IF e \in ds THEN "MarkedForDespawn"
  ELSE IF e \in d THEN "MarkedForDeath"
  ELSE "Active"

\* ------------------------------------------------------ deferred commands
Cmd(op, comp, e, sys, pat, dmg) ==
  [op |-> op, comp |-> comp, e |-> e, sys |-> sys, pat |-> pat, dmg |-> dmg]

Insert(comp, e, sys) == Cmd("insert", comp, e, sys, None, 0)
Despawn(e, sys) == Cmd("despawn", None, e, sys, None, 0)
SpawnAttack(e, sys, pat, dmg) == Cmd("spawn", "Attack", e, sys, pat, dmg)
SpawnProjectile(e, sys) == Cmd("spawn", "Projectile", e, sys, None, 0)

\* The part of the world that applying a command changes.
World ==
  [exists |-> exists, mfd |-> mfd, mfdsp |-> mfdsp, hasLDT |-> hasLDT,
   ldtTime |-> ldtTime, bound |-> bound, atkPattern |-> atkPattern,
   atkDamage |-> atkDamage, atkLife |-> atkLife, atkLastTick |-> atkLastTick,
   pierce |-> pierce, panicked |-> panicked, removedAs |-> removedAs]

\* insert: adds (or overwrites) the component; on an entity that no longer
\* exists the command panics.
ApplyInsert(w, c) ==
  IF c.e \notin w.exists THEN [w EXCEPT !.panicked = TRUE]
  ELSE CASE c.comp = "MarkedForDeath" -> [w EXCEPT !.mfd = @ \cup {c.e}]
         [] c.comp = "MarkedForDespawn" -> [w EXCEPT !.mfdsp = @ \cup {c.e}]
         [] c.comp = "BindingEffect" -> [w EXCEPT !.bound = @ \cup {c.e}]
         [] c.comp = "LastDamageTime" ->
              [w EXCEPT !.hasLDT = @ \cup {c.e}, !.ldtTime[c.e] = 0]

\* despawn: removes the entity with all its components (no-op if already gone).
ApplyDespawn(w, c) ==
  IF c.e \notin w.exists THEN w
  ELSE [w EXCEPT !.exists = @ \ {c.e},
                 !.removedAs[c.e] = Marker(c.e, w.mfd, w.mfdsp),
                 !.mfd = @ \ {c.e}, !.mfdsp = @ \ {c.e},
                 !.hasLDT = @ \ {c.e}, !.bound = @ \ {c.e}]

\* spawn: the reserved entity comes into being with its bundle.
ApplySpawn(w, c) ==
  IF c.comp = "Attack"
  THEN [w EXCEPT !.exists = @ \cup {c.e}, !.atkPattern[c.e] = c.pat,
                 !.atkDamage[c.e] = c.dmg, !.atkLife[c.e] = 0,
                 !.atkLastTick[c.e] = 0]
  ELSE [w EXCEPT !.exists = @ \cup {c.e}, !.pierce[c.e] = InitialPierce]

ApplyCmd(w, c) ==
  IF w.panicked THEN w
  ELSE CASE c.op = "insert" -> ApplyInsert(w, c)
         [] c.op = "despawn" -> ApplyDespawn(w, c)
         [] c.op = "spawn" -> ApplySpawn(w, c)

RECURSIVE ApplyAll(_, _)
ApplyAll(w, q) == IF q = <<>> THEN w ELSE ApplyAll(ApplyCmd(w, Head(q)), Tail(q))

\* The world after the queued commands have been applied.
Flushed == ApplyAll(World, cmds)

\* Lifecycle state of any entity id; removedAs keeps the state an entity was
\* in when it was despawned.
Life(e) ==
  IF e \in exists THEN Marker(e, mfd, mfdsp)
  ELSE IF removedAs[e] # None THEN "Removed"
  ELSE "Unspawned"

SetWorld(w) ==
  /\ exists' = w.exists
  /\ mfd' = w.mfd
  /\ mfdsp' = w.mfdsp
  /\ hasLDT' = w.hasLDT
  /\ ldtTime' = w.ldtTime
  /\ bound' = w.bound
  /\ atkPattern' = w.atkPattern
  /\ atkDamage' = w.atkDamage
  /\ atkLife' = w.atkLife
  /\ atkLastTick' = w.atkLastTick
  /\ pierce' = w.pierce
  /\ panicked' = w.panicked
  /\ removedAs' = w.removedAs

\* ------------------------------------------------------------- scheduling
\* Ordering edges of the Update schedule: the set chain of main.rs puts the
\* Combat systems before Cleanup; the weapon systems are one chain.
BeforeMain(s) ==
  IF s = "cleanup_marked_entities"
  THEN {"handle_damage", "death_system", "combat_system"}
  ELSE {}

BeforeWeapons(s) ==
  CASE s = "area_effect_system" -> {"weapon_firing_system"}
    [] s = "handle_binding_events" -> {"weapon_firing_system", "area_effect_system"}
    [] s = "attack_lifetime_system" ->
         {"weapon_firing_system", "area_effect_system", "handle_binding_events"}
    [] OTHER -> {}

Before(s) == BeforeMain(s) \cup BeforeWeapons(s)

Systems ==
  {"handle_damage", "death_system", "combat_system", "cleanup_marked_entities",
   "weapon_firing_system", "area_effect_system", "handle_binding_events",
   "attack_lifetime_system", "handle_collision_events"}

\* The systems that queue commands.
Deferring == Systems \ {"area_effect_system"}

\* One frame as the executor may run it: the systems in an order that respects
\* the edges above, with a sync point between any two ordered systems of which
\* the earlier one queues commands.  handle_collision_events has no edge to
\* the other systems; it runs before the weapon's area scan, either with no
\* sync point in between (CollisionLate) or first in the frame (CollisionFirst).
CollisionLate ==
  <<"handle_damage", "death_system", "combat_system", "weapon_firing_system",
    "apply_deferred", "handle_collision_events", "cleanup_marked_entities",
    "area_effect_system", "handle_binding_events", "apply_deferred",
    "attack_lifetime_system">>

CollisionFirst ==
  <<"handle_collision_events", "handle_damage", "death_system", "combat_system",
    "weapon_firing_system", "apply_deferred", "cleanup_marked_entities",
    "area_effect_system", "handle_binding_events", "apply_deferred",
    "attack_lifetime_system">>

Schedules == {CollisionLate, CollisionFirst}

Position(sched, s) == CHOOSE i \in 1..Len(sched) : sched[i] = s

\* sched runs every system once and honours every edge and its sync point.
LegalSchedule(sched) ==
  /\ \A s \in Systems : Cardinality({i \in 1..Len(sched) : sched[i] = s}) = 1
  /\ \A s \in Systems : \A b \in Before(s) :
       /\ Position(sched, b) < Position(sched, s)
       /\ b \in Deferring =>
            \E i \in Position(sched, b)..Position(sched, s) :
              sched[i] = "apply_deferred"

SchedulesLegal == \A sched \in Schedules : LegalSchedule(sched)

\* The step of the frame's schedule that is due.
Due == IF pc <= Len(order) THEN order[pc] ELSE "end_frame"

\* A system runs in the Playing state, when the schedule reaches it.
CanRun(s) ==
  /\ gameState = "Playing"
  /\ ~panicked
  /\ Due = s

\* A sync point: every queued command is applied, in issue order.
apply_deferred ==
  /\ CanRun("apply_deferred")
  /\ SetWorld(Flushed)
  /\ cmds' = <<>>
  /\ pc' = pc + 1
  /\ UNCHANGED <<now, delta, gameState, nextState, allocated, health,
                 patterns, wElapsed, lastAttack, dmgOld, dmgNew, bindOld,
                 bindNew, deathOld, deathNew, kills, deathCount, accepted,
                 hdLog, staleCmds, touching, auxVars>>

\* --------------------------------------------------------- handle_damage
DamageEvent(target, amount, source) ==
  [target |-> target, amount |-> amount, source |-> source]

\* A handle_damage whose cooldown check lets every hit through.
CooldownRejectsNever(last, cur) == FALSE

\* "if current_time - last_damage.time < last_damage.cooldown { continue; }"
CooldownRejects(last, cur) == cur - last < DefaultCooldown

\* A handle_damage that leaves the stored timestamp as it was.
StampedTimeStale(last, cur) == last

\* "last_damage.time = current_time;"
StampedTime(last, cur) == cur

\* "health.current -= event.amount;"  (not clamped)
DamagedHealth(h, amount) == h - amount

\* The last two hits accepted for a target, oldest first.
Remember(hist, rec) ==
  IF Len(hist) < 2 THEN Append(hist, rec) ELSE <<hist[2], rec>>

\* A handle_damage that rate-limits every target, component or not.
HasCooldownAlways(t) == t \in exists

\* "if let Ok(mut last_damage) = last_damage_query.get_mut(event.target)"
HasCooldown(t) == t \in exists /\ t \in hasLDT

\* One iteration of handle_damage's loop over the events it reads.
HandleOne(st, ev) ==
  LET t == ev.target
      hasCd == HasCooldown(t)
      entry(applied) == [target |-> t, source |-> ev.source, amount |-> ev.amount,
                         applied |-> applied, live |-> t \in exists,
                         cd |-> t \in hasLDT]
  IN
  IF st.panic THEN st
  ELSE IF hasCd /\ CooldownRejects(st.ldtTime[t], now)
  THEN [st EXCEPT !.log = Append(@, entry(FALSE))]
  ELSE IF t \notin exists
  THEN \* commands.entity(target) on an entity that is gone
       [st EXCEPT !.panic = TRUE,
                  !.stale = @ \cup {<<"handle_damage", t>>},
                  !.log = Append(@, entry(FALSE))]
  ELSE
    LET h2 == DamagedHealth(st.health[t], ev.amount)
        c1 == IF hasCd THEN st.cmds
              ELSE Append(st.cmds, Insert("LastDamageTime", t, "handle_damage"))
        c2 == IF h2 <= 0
              THEN Append(c1, Insert("MarkedForDeath", t, "handle_damage"))
              ELSE c1
    IN [st EXCEPT !.health[t] = h2,
                  !.ldtTime[t] = IF hasCd THEN StampedTime(@, now) ELSE @,
                  !.cmds = c2,
                  !.accepted[t] = Remember(@, [t |-> now, cd |-> hasCd,
                                               was |-> st.health[t], h |-> h2]),
                  !.log = Append(@, entry(TRUE))]

RECURSIVE HandleAll(_, _)
HandleAll(st, evs) ==
  IF evs = <<>> THEN st ELSE HandleAll(HandleOne(st, Head(evs)), Tail(evs))

handle_damage ==
  /\ CanRun("handle_damage")
  /\ LET st0 == [health |-> health, ldtTime |-> ldtTime, cmds |-> cmds,
                 accepted |-> accepted, log |-> <<>>, stale |-> staleCmds,
                 panic |-> FALSE]
         st == HandleAll(st0, dmgOld \o dmgNew)
     IN /\ health' = st.health
        /\ ldtTime' = st.ldtTime
        /\ cmds' = st.cmds
        /\ accepted' = st.accepted
        /\ hdLog' = st.log
        /\ staleCmds' = st.stale
        /\ panicked' = st.panic
  /\ dmgOld' = <<>>
  /\ dmgNew' = <<>>
  /\ pc' = pc + 1
  /\ UNCHANGED <<now, delta, gameState, nextState, exists, allocated, hasLDT,
                 mfd, mfdsp, bound, atkPattern, atkDamage, atkLife,
                 atkLastTick, patterns, wElapsed, lastAttack, pierce, bindOld,
                 bindNew, deathOld, deathNew, kills, deathCount, removedAs,
                 touching, auxVars>>

\* ----------------------------------------------------------- death_system
EntityDeathEvent(entity, exp) == [entity |-> entity, exp |-> exp]

\* Experience carried by a death event: Some(experience_value) for an enemy.
ExpValue(e) == IF e \in Enemies THEN {EnemyExperienceValue} ELSE {}

\* "Query<..., With<MarkedForDeath>>"
MarkedEntities == InOrder(mfd \cap exists)

\* A death_system that never hands the entity over to cleanup.
MarkForDespawnDropped(e) == <<>>

\* "commands.entity(entity).insert(MarkedForDespawn);"
MarkForDespawn(e) == <<Insert("MarkedForDespawn", e, "death_system")>>

\* A kill counter that counts every entity death_system handles.
KilledAny(es) == Len(es)

\* "if let Some(_enemy) = enemy { game_stats.enemies_killed += 1; }" over
\* the marked entities.
Killed(es) == Len(SelectSeq(es, LAMBDA e : e \in Enemies))

\* The player branch: "if health.current <= 0.0 { ...; return; }"
PlayerDead == Player \in exists /\ health[Player] <= 0

RECURSIVE DeathCmds(_)
DeathCmds(es) ==
  IF es = <<>> THEN <<>> ELSE MarkForDespawn(Head(es)) \o DeathCmds(Tail(es))

RECURSIVE DeathEvents(_)
DeathEvents(es) ==
  IF es = <<>> THEN <<>>
  ELSE <<EntityDeathEvent(Head(es), ExpValue(Head(es)))>> \o DeathEvents(Tail(es))

death_system ==
  /\ CanRun("death_system")
  /\ IF PlayerDead
     THEN /\ cmds' = cmds \o MarkForDespawn(Player)
          /\ deathNew' = Append(deathNew, EntityDeathEvent(Player, {}))
          /\ deathCount' = [deathCount EXCEPT ![Player] = @ + 1]
          /\ nextState' = "GameOver"
          /\ kills' = kills
     ELSE /\ cmds' = cmds \o DeathCmds(MarkedEntities)
          /\ deathNew' = deathNew \o DeathEvents(MarkedEntities)
          /\ deathCount' = [e \in Ents |->
                              IF e \in mfd \cap exists THEN deathCount[e] + 1
                              ELSE deathCount[e]]
          /\ kills' = kills + Killed(MarkedEntities)
          /\ nextState' = nextState
  /\ pc' = pc + 1
  /\ UNCHANGED <<now, delta, gameState, panicked, exists, allocated, health,
                 hasLDT, ldtTime, mfd, mfdsp, bound, atkPattern, atkDamage,
                 atkLife, atkLastTick, patterns, wElapsed, lastAttack, pierce,
                 dmgOld, dmgNew, bindOld, bindNew, deathOld, accepted, hdLog,
                 staleCmds, removedAs, touching, auxVars>>

\* ------------------------------------------------ cleanup_marked_entities
\* "Query<Entity, With<MarkedForDespawn>>"
DespawnTargets == InOrder(mfdsp \cap exists)

RECURSIVE CleanupCmds(_)
CleanupCmds(es) ==
  IF es = <<>> THEN <<>>
  ELSE <<Despawn(Head(es), "cleanup_marked_entities")>> \o CleanupCmds(Tail(es))

cleanup_marked_entities ==
  /\ CanRun("cleanup_marked_entities")
  /\ cmds' = cmds \o CleanupCmds(DespawnTargets)
  /\ pc' = pc + 1
  /\ UNCHANGED <<now, delta, gameState, nextState, panicked, exists, allocated,
                 health, hasLDT, ldtTime, mfd, mfdsp, bound, atkPattern,
                 atkDamage, atkLife, atkLastTick, patterns, wElapsed,
                 lastAttack, pierce, dmgOld, dmgNew, bindOld, bindNew,
                 deathOld, deathNew, kills, deathCount, accepted, hdLog,
                 staleCmds, removedAs, touching, auxVars>>

\* --------------------------------------------------- weapon_firing_system
\* base_duration * (100 + cooldown_bonus)/100 * (1 - cooldown_reduction)
EffectiveCooldown(base, bonus, crPct) ==
  (base * (100 + bonus) * (100 - crPct)) \div 10000

\* floor(base_amount * (100 + damage_bonus)/100 * damage_multiplier)
EffectiveDamage(base, bonus, multPct) ==
  (base * (100 + bonus) * multPct) \div 10000

\* The first n entity ids of the pool not yet reserved.
FreeIds(pool, alloc, n) == SubSeq(InOrder(pool \ alloc), 1, n)

\* One spawn_magick_circle_attack per owned pattern.
AttackSpawns(ids, pats, dmg) ==
  [i \in 1..Len(pats) |-> SpawnAttack(ids[i], "weapon_firing_system", pats[i], dmg)]

weapon_firing_system ==
  /\ CanRun("weapon_firing_system")
  /\ IF Player \in exists
     THEN LET dur == EffectiveCooldown(WeaponBaseDuration, cooldown_bonus,
                                       CooldownReductionPct)
              el == wElapsed + delta
              dmg == EffectiveDamage(WeaponBaseDamage, damage_bonus,
                                     DamageMultiplierPct)
              ids == FreeIds(Attacks, allocated, Len(patterns))
          IN IF el >= dur
             THEN /\ Cardinality(Attacks \ allocated) >= Len(patterns)
                  /\ wElapsed' = el % dur
                  /\ cmds' = cmds \o AttackSpawns(ids, patterns, dmg)
                  /\ allocated' = allocated \cup {ids[i] : i \in 1..Len(patterns)}
             ELSE /\ wElapsed' = el
                  /\ UNCHANGED <<cmds, allocated>>
     ELSE UNCHANGED <<wElapsed, cmds, allocated>>
  /\ pc' = pc + 1
  /\ UNCHANGED <<now, delta, gameState, nextState, panicked, exists, health,
                 hasLDT, ldtTime, mfd, mfdsp, bound, atkPattern, atkDamage,
                 atkLife, atkLastTick, patterns, lastAttack, pierce, touching,
                 dmgOld, dmgNew, bindOld, bindNew, deathOld, deathNew, kills,
                 deathCount, accepted, hdLog, staleCmds, removedAs, auxVars>>

\* ----------------------------------------------------- area_effect_system
BindingEvent(target, source) == [target |-> target, source |-> source]

\* An area_effect_system that scans on every frame.
TickElapsedAlways(lastTick, cur) == TRUE

\* "if time.elapsed_secs() - area_effect.last_tick >= area_effect.tick_rate"
TickElapsed(lastTick, cur) == cur - lastTick >= TickRate

\* The attacks whose own tick interval has elapsed.
Ticking == {a \in Attacks \cap exists : TickElapsed(atkLastTick[a], now)}

\* "Query<Entity, (With<Enemy>, Without<MarkedForDeath>)>"
ScannableEnemies == (Enemies \cap exists) \ mfd

\* An area_effect_system whose match sends a DamageEvent for every pattern.
EffectAlwaysDamage(a, enemy) ==
  [kind |-> "damage", target |-> enemy, source |-> a, amount |-> atkDamage[a]]

\* What one circle does to one enemy it overlaps (the match on the pattern).
Effect(a, enemy) ==
  [kind |-> CASE atkPattern[a] = "Banishment" -> "damage"
              [] atkPattern[a] = "Binding" -> "binding"
              [] OTHER -> "unhandled",
   target |-> enemy, source |-> a, amount |-> atkDamage[a]]

RECURSIVE CircleEffects(_, _, _)
CircleEffects(enemy, circles, ov) ==
  IF circles = <<>> THEN <<>>
  ELSE (IF enemy \in ov[Head(circles)] THEN <<Effect(Head(circles), enemy)>>
        ELSE <<>>) \o CircleEffects(enemy, Tail(circles), ov)

RECURSIVE EnemyEffects(_, _, _)
EnemyEffects(enemies, circles, ov) ==
  IF enemies = <<>> THEN <<>>
  ELSE CircleEffects(Head(enemies), circles, ov)
         \o EnemyEffects(Tail(enemies), circles, ov)

OfKind(effs, k) == SelectSeq(effs, LAMBDA x : x.kind = k)

DamageEvents(effs) ==
  [i \in 1..Len(effs) |-> DamageEvent(effs[i].target, effs[i].amount, effs[i].source)]

BindingEvents(effs) ==
  [i \in 1..Len(effs) |-> BindingEvent(effs[i].target, effs[i].source)]

\* ov: the enemies the physics context reports intersecting each ticking circle.
area_effect_system ==
  /\ CanRun("area_effect_system")
  /\ \E ov \in [Ticking -> SUBSET ScannableEnemies] :
       LET effs == EnemyEffects(InOrder(Enemies), InOrder(Ticking), ov)
       IN /\ dmgNew' = dmgNew \o DamageEvents(OfKind(effs, "damage"))
          /\ bindNew' = bindNew \o BindingEvents(OfKind(effs, "binding"))
  /\ atkLastTick' = [a \in Ents |-> IF a \in Ticking THEN now ELSE atkLastTick[a]]
  /\ pc' = pc + 1
  /\ UNCHANGED <<now, delta, gameState, nextState, cmds, panicked, exists,
                 allocated, health, hasLDT, ldtTime, mfd, mfdsp, bound,
                 atkPattern, atkDamage, atkLife, patterns, wElapsed,
                 lastAttack, pierce, touching, dmgOld, bindOld, deathOld,
                 deathNew, kills, deathCount, accepted, hdLog, staleCmds,
                 removedAs, auxVars>>

\* -------------------------------------------------- handle_binding_events
\* One iteration: "commands.entity(event.target).insert(BindingEffect {..})"
BindOne(st, ev) ==
  IF st.panic THEN st
  ELSE IF ev.target \notin exists
  THEN [st EXCEPT !.panic = TRUE,
                  !.stale = @ \cup {<<"handle_binding_events", ev.target>>}]
  ELSE [st EXCEPT !.cmds =
          Append(@, Insert("BindingEffect", ev.target, "handle_binding_events"))]

RECURSIVE BindAll(_, _)
BindAll(st, evs) ==
  IF evs = <<>> THEN st ELSE BindAll(BindOne(st, Head(evs)), Tail(evs))

handle_binding_events ==
  /\ CanRun("handle_binding_events")
  /\ LET st == BindAll([cmds |-> cmds, stale |-> staleCmds, panic |-> FALSE],
                       bindOld \o bindNew)
     IN /\ cmds' = st.cmds
        /\ staleCmds' = st.stale
        /\ panicked' = st.panic
  /\ bindOld' = <<>>
  /\ bindNew' = <<>>
  /\ pc' = pc + 1
  /\ UNCHANGED <<now, delta, gameState, nextState, exists, allocated, health,
                 hasLDT, ldtTime, mfd, mfdsp, bound, atkPattern, atkDamage,
                 atkLife, atkLastTick, patterns, wElapsed, lastAttack, pierce,
                 touching, dmgOld, dmgNew, deathOld, deathNew, kills,
                 deathCount, accepted, hdLog, removedAs, auxVars>>

\* ------------------------------------------------- attack_lifetime_system
\* An attack_lifetime_system that also visits the attacks already marked.
LivingAttacksMarked == Attacks \cap exists

\* "Query<(Entity, &mut Lifetime), (With<Attack>, Without<MarkedForDeath>)>"
LivingAttacks == (Attacks \cap exists) \ mfd

\* Timer (TimerMode::Once) after tick(delta): the elapsed time saturates.
TickOnce(elapsed, d) == Min(elapsed + d, AttackLifetime)

\* "lifetime.timer.finished()"
Expired(elapsed) == elapsed >= AttackLifetime

RECURSIVE LifetimeCmds(_)
LifetimeCmds(as) ==
  IF as = <<>> THEN <<>>
  ELSE (IF Expired(TickOnce(atkLife[Head(as)], delta))
        THEN <<Insert("MarkedForDeath", Head(as), "attack_lifetime_system")>>
        ELSE <<>>) \o LifetimeCmds(Tail(as))

attack_lifetime_system ==
  /\ CanRun("attack_lifetime_system")
  /\ atkLife' = [a \in Ents |-> IF a \in LivingAttacks
                                THEN TickOnce(atkLife[a], delta) ELSE atkLife[a]]
  /\ cmds' = cmds \o LifetimeCmds(InOrder(LivingAttacks))
  /\ pc' = pc + 1
  /\ UNCHANGED <<now, delta, gameState, nextState, panicked, exists, allocated,
                 health, hasLDT, ldtTime, mfd, mfdsp, bound, atkPattern,
                 atkDamage, atkLastTick, patterns, wElapsed, lastAttack,
                 pierce, touching, dmgOld, dmgNew, bindOld, bindNew, deathOld,
                 deathNew, kills, deathCount, accepted, hdLog, staleCmds,
                 removedAs, auxVars>>

\* ---------------------------------------------------------- combat_system
\* "time.elapsed_seconds() - combat.last_attack >= 1.0 / combat.attack_speed"
AttackReady(last, cur) == cur - last >= AttackPeriod

combat_system ==
  /\ CanRun("combat_system")
  /\ IF Player \in exists /\ AttackReady(lastAttack, now)
        /\ Enemies \cap exists # {}
     THEN /\ Projs \ allocated # {}
          /\ cmds' = Append(cmds, SpawnProjectile(NextFree(Projs, allocated),
                                                  "combat_system"))
          /\ allocated' = allocated \cup {NextFree(Projs, allocated)}
          /\ lastAttack' = now
     ELSE UNCHANGED <<cmds, allocated, lastAttack>>
  /\ pc' = pc + 1
  /\ UNCHANGED <<now, delta, gameState, nextState, panicked, exists, health,
                 hasLDT, ldtTime, mfd, mfdsp, bound, atkPattern, atkDamage,
                 atkLife, atkLastTick, patterns, wElapsed, pierce, touching,
                 dmgOld, dmgNew, bindOld, bindNew, deathOld, deathNew, kills,
                 deathCount, accepted, hdLog, staleCmds, removedAs, auxVars>>

\* ------------------------------------------------ handle_collision_events
\* One projectile / enemy contact: "enemy_health.current -= 25.0", a direct
\* despawn of the enemy at zero health, and a direct despawn of the projectile.
HitOne(st, proj, enemy) ==
  LET h2 == st.health[enemy] - ProjectileHitDamage
      c1 == IF h2 <= 0
            THEN Append(st.cmds, Despawn(enemy, "handle_collision_events"))
            ELSE st.cmds
  IN [health |-> [st.health EXCEPT ![enemy] = h2],
      cmds |-> Append(c1, Despawn(proj, "handle_collision_events"))]

RECURSIVE HitAll(_, _, _)
HitAll(st, projs, tgt) ==
  IF projs = <<>> THEN st
  ELSE HitAll(HitOne(st, Head(projs), tgt[Head(projs)]), Tail(projs), tgt)

\* "time.elapsed_seconds() % 0.25 < time.delta_seconds()"
ContactTick(cur, d) == cur % ContactPeriod < d

\* "health.current -= 5.0 * enemy_collisions.len()"
ContactHealth(h, n) == h - ContactDamage * n

\* contact: the enemies touching the player's damage sensor after this physics
\* step (a Started event for each that was not touching before);
\* tgt: the enemy each projectile that made contact has hit.
handle_collision_events ==
  /\ CanRun("handle_collision_events")
  /\ IF Player \notin exists
     THEN UNCHANGED <<health, cmds, touching>>
     ELSE \E contact \in SUBSET (Enemies \cap exists) :
          \E hitters \in SUBSET (Projs \cap exists) :
          \E tgt \in [hitters -> Enemies \cap exists] :
            LET started == contact \ touching
                st == HitAll([health |-> health, cmds |-> cmds],
                             InOrder(hitters), tgt)
            IN /\ touching' = contact
               /\ cmds' = st.cmds
               /\ health' =
                    IF started # {} /\ ContactTick(now, delta)
                    THEN [st.health EXCEPT ![Player] =
                            ContactHealth(@, Cardinality(started))]
                    ELSE st.health
  /\ pc' = pc + 1
  /\ UNCHANGED <<now, delta, gameState, nextState, panicked, exists, allocated,
                 hasLDT, ldtTime, mfd, mfdsp, bound, atkPattern, atkDamage,
                 atkLife, atkLastTick, patterns, wElapsed, lastAttack, pierce,
                 dmgOld, dmgNew, bindOld, bindNew, deathOld, deathNew, kills,
                 deathCount, accepted, hdLog, staleCmds, removedAs, auxVars>>

\* ------------------------------------------------------------ frame end
\* The rest of the frame: the schedule's final sync point, the event buffers
\* swap (an event unread for two frames is dropped), the requested state
\* transition is applied and the clock advances.
end_frame ==
  /\ CanRun("end_frame")
  /\ now < MaxTime
  /\ SetWorld(Flushed)
  /\ cmds' = <<>>
  /\ dmgOld' = dmgNew
  /\ dmgNew' = <<>>
  /\ bindOld' = bindNew
  /\ bindNew' = <<>>
  /\ deathOld' = deathNew
  /\ deathNew' = <<>>
  /\ gameState' = IF nextState = None THEN gameState ELSE nextState
  /\ nextState' = None
  /\ now' = now + delta
  /\ pc' = 1
  /\ hdLog' = <<>>
  /\ UNCHANGED <<delta, allocated, health, patterns, wElapsed, lastAttack,
                 touching, kills, deathCount, accepted, staleCmds, auxVars>>

\* ------------------------------------------- the parts specified on their own
\* generate_choices has not been called: luck, the random draw (in percent)
\* and the inventory (the level of each weapon) it will be called with.
InitChoices(l, r, inv) ==
  /\ chLuck = l
  /\ chRoll = r
  /\ chInv = inv
  /\ chCount = 0
  /\ chOut = {}

\* The weapon has not fired yet.
InitFired == fired = <<>>

\* No level-up menu has been opened.
InitMenu ==
  /\ menuNo = 0
  /\ menuItems = <<>>
  /\ menuEnter = FALSE
  /\ menuPc = 0
  /\ menuSent = <<>>

\* No body has been placed and no detector has run.
InitGeo ==
  /\ projAt = <<>>
  /\ stepVel = <<>>
  /\ bodyAt = <<>>
  /\ colOut = <<>>
  /\ colBy = None

\* No orb has been dropped.
InitOrbs ==
  /\ orbLife = [o \in {"O1", "O2"} |-> "none"]
  /\ orbEvents = <<>>
  /\ orbGain = [o \in {"O1", "O2"} |-> 0]

\* No system has run yet; SpawnTimer::default() has not ticked.
InitLookup ==
  /\ ran = None
  /\ written = {}
  /\ spawnTimer = 0
  /\ enemyCount = 0

\* The bodies the collision handlers see: the player, the player's damage
\* sensor, two enemies and a projectile.
Sensor == "S"
ColEnemies == {"E1", "E2"}
ColProjs == {"J1"}
Bodies == {Player, Sensor} \cup ColEnemies \cup ColProjs

\* The collision handlers are specified with Health in quarter points, so that
\* "10.0 * time.delta_seconds()" is a whole number for every frame period.
QuarterHp(hp) == 4 * hp

\* handler: the system that reads the collision events, handle_collision_events
\* of the physics module or damage_system of the collision module.
InitCollision(handler, ph) ==
  /\ colHandler = handler
  /\ colHealth = [b \in {Player} \cup ColEnemies |->
                    QuarterHp(IF b = Player THEN ph ELSE EnemyMaxHealth)]
  /\ colGone = {}
  /\ colLog = {}

\* The session at its start: in Playing, the clock running, nothing requested,
\* the frame's schedule sched run to its end.
InitSession(sched, t0, ph, xp) ==
  /\ appState = "Playing"
  /\ appNext = None
  /\ paused = FALSE
  /\ clock = t0
  /\ dt = 0
  /\ esc = FALSE
  /\ sysOrder = sched
  /\ sysPc = Len(sched) + 1
  /\ pHealth = ph
  /\ pLife = "alive"
  /\ expCur = xp
  /\ expLevel = 1
  /\ orbs = 0
  /\ evOld = <<>>
  /\ evNew = <<>>
  /\ evSent = 0
  /\ evRead = 0
  /\ levelUps = 0
  /\ interrupts = 0
  /\ deathSeen = "no"
  /\ announced = {}
  /\ spawned = <<>>

\* The weapon's cooldown timer at we, one attack of age al that last ticked at
\* t0, and an enemy last damaged at t0.
InitTimers(t0, we, al) ==
  /\ cdTimer = we
  /\ lifeTimer = al
  /\ last_tick = t0
  /\ last_damage = t0
  /\ dmgPending = FALSE
  /\ snap = <<>>

InitExtra ==
  /\ InitChoices(DefaultLuck, 0, <<1>>)
  /\ InitFired
  /\ InitLookup
  /\ InitMenu
  /\ InitGeo
  /\ InitOrbs
  /\ InitCollision("physics", PlayerMaxHealth)
  /\ InitSession(<<>>, StartTime, PlayerMaxHealth, 0)
  /\ InitTimers(StartTime, 0, 0)

\* ------------------------------------------------------- the running game
\* The frame period, the owned circle patterns, the player's health and the
\* weapon timer at the start of the modelled window.
Deltas == {1, 2}
PatternLists == {<<"Banishment">>, <<"Banishment", "Banishment">>}
PlayerHealths == {10}
WeaponTimerStarts == {26}

\* The world at the start of the modelled window: the player and one enemy in
\* the arena, nothing marked, no event pending.
InitWorld(sched, d, pats, ph, we) ==
  /\ now = StartTime
  /\ delta = d
  /\ gameState = "Playing"
  /\ nextState = None
  /\ order = sched
  /\ pc = 1
  /\ cmds = <<>>
  /\ panicked = FALSE
  /\ exists = {Player} \cup Enemies
  /\ allocated = {Player} \cup Enemies
  /\ health = [e \in Ents |-> IF e = Player THEN ph
                              ELSE IF e \in Enemies THEN EnemyMaxHealth
                              ELSE 0]
  /\ hasLDT = {}
  /\ ldtTime = [e \in Ents |-> 0]
  /\ mfd = {}
  /\ mfdsp = {}
  /\ bound = {}
  /\ atkPattern = [e \in Ents |-> None]
  /\ atkDamage = [e \in Ents |-> 0]
  /\ atkLife = [e \in Ents |-> 0]
  /\ atkLastTick = [e \in Ents |-> 0]
  /\ patterns = pats
  /\ wElapsed = we
  /\ lastAttack = 0
  /\ pierce = [e \in Ents |-> 0]
  /\ touching = {}
  /\ dmgOld = <<>>
  /\ dmgNew = <<>>
  /\ bindOld = <<>>
  /\ bindNew = <<>>
  /\ deathOld = <<>>
  /\ deathNew = <<>>
  /\ kills = 0
  /\ deathCount = [e \in Ents |-> 0]
  /\ accepted = [e \in Ents |-> <<>>]
  /\ hdLog = <<>>
  /\ staleCmds = {}
  /\ removedAs = [e \in Ents |-> None]

\* spawn_player: Experience { current: 0, level: 1 }.
InitExperience ==
  /\ xpCurrent = 0
  /\ xpLevel = 1
  /\ xpAdded = 0
  /\ xpLeveled = FALSE
  /\ xpDue = "collect_experience_orbs"

\* spawn_magick_circle / setup_player_inventory: a level 1 weapon, no bonus.
InitWeapon(pl) ==
  /\ pipeline = pl
  /\ invLevel = 1
  /\ metaLevel = 1
  /\ damage_bonus = 0
  /\ area_bonus = 0
  /\ cooldown_bonus = 0
  /\ upgEvents = <<>>
  /\ levelQ = <<>>
  /\ commonQ = <<>>
  /\ circleQ = <<>>
  /\ upgBase = [level |-> 1, damage_bonus |-> 0, area_bonus |-> 0,
                cooldown_bonus |-> 0, patterns |-> <<"Banishment">>]
  /\ upgSent = <<>>

Init ==
  /\ \E sched \in Schedules, d \in Deltas, pats \in PatternLists,
        ph \in PlayerHealths, we \in WeaponTimerStarts :
       InitWorld(sched, d, pats, ph, we)
  /\ InitExperience
  /\ InitWeapon("inventory")
  /\ InitExtra

Next ==
  \/ handle_damage
  \/ death_system
  \/ combat_system
  \/ cleanup_marked_entities
  \/ weapon_firing_system
  \/ area_effect_system
  \/ handle_binding_events
  \/ attack_lifetime_system
  \/ handle_collision_events
  \/ apply_deferred
  \/ end_frame

Spec == Init /\ [][Next]_vars

\* ------------------------------------------------------- experience chain
RECURSIVE Pow(_, _)
Pow(b, n) == IF n = 0 THEN 1 ELSE b * Pow(b, n - 1)

\* "(base_xp as f32 * scaling.powi((level - 1) as i32)) as u32", scaling 1.25
calculate_experience_needed(level) ==
  (BaseXp * Pow(5, level - 1)) \div Pow(4, level - 1)

\* A check_level_up that throws the leftover away.
BankedNothing(current, needed) == 0

\* "experience.current -= xp_needed;"
Banked(current, needed) == current - needed

\* The experience systems are one chain, run in the Playing state.
XpCanRun(s) == gameState = "Playing" /\ xpDue = s

\* n: the orbs whose contact with the player started this frame; each carries
\* the experience value of the enemy that dropped it.
collect_experience_orbs ==
  /\ XpCanRun("collect_experience_orbs")
  /\ xpLevel <= MaxLevel
  /\ \E n \in 0..MaxOrbsPerFrame :
       /\ xpCurrent' = xpCurrent + n * EnemyExperienceValue
       /\ xpAdded' = xpAdded + n * EnemyExperienceValue
  /\ xpLeveled' = FALSE
  /\ xpDue' = "check_level_up"
  /\ UNCHANGED <<combatVars, extraVars, gameState, nextState, patterns, xpLevel,
                 damage_bonus, area_bonus, cooldown_bonus, upgVars>>

check_level_up ==
  /\ XpCanRun("check_level_up")
  /\ LET xp_needed == calculate_experience_needed(xpLevel)
     IN IF xpCurrent >= xp_needed
        THEN /\ xpCurrent' = Banked(xpCurrent, xp_needed)
             /\ xpLevel' = xpLevel + 1
             /\ nextState' = "LevelUp"
             /\ xpLeveled' = TRUE
        ELSE UNCHANGED <<xpCurrent, xpLevel, nextState, xpLeveled>>
  /\ xpDue' = "state_transition"
  /\ UNCHANGED <<combatVars, extraVars, gameState, patterns, xpAdded,
                 damage_bonus, area_bonus, cooldown_bonus, upgVars>>

\* The requested state becomes the current one before the next frame.
state_transition ==
  /\ XpCanRun("state_transition")
  /\ gameState' = IF nextState = None THEN gameState ELSE nextState
  /\ nextState' = None
  /\ xpDue' = "collect_experience_orbs"
  /\ UNCHANGED <<combatVars, extraVars, patterns, xpCurrent, xpLevel, xpAdded, xpLeveled,
                 damage_bonus, area_bonus, cooldown_bonus, upgVars>>

\* The level-up menu confirms a choice: "next_state.set(GameState::Playing)".
handle_upgrade_selection ==
  /\ gameState = "LevelUp"
  /\ gameState' = "Playing"
  /\ UNCHANGED <<combatVars, extraVars, nextState, patterns, xpVars,
                 damage_bonus, area_bonus, cooldown_bonus, upgVars>>

InitXP ==
  /\ InitWorld(CollisionLate, 1, <<"Banishment">>, PlayerMaxHealth, 0)
  /\ InitExperience
  /\ InitWeapon("inventory")
  /\ InitExtra

NextXP ==
  \/ collect_experience_orbs
  \/ check_level_up
  \/ state_transition
  \/ handle_upgrade_selection

SpecXP == InitXP /\ [][NextXP]_vars

\* ------------------------------------------------------- weapon upgrades
Change(kind, value) == [kind |-> kind, value |-> value]

AddCircle == Change("AddCircle", 0)

\* The level 2 .. level 8 upgrades of the magick circle.
Progression ==
  << <<Change("Damage", 2), Change("Area", 1)>>,
     <<AddCircle>>,
     <<AddCircle, Change("Damage", 1), Change("Area", 1)>>,
     <<AddCircle>>,
     <<AddCircle, Change("Damage", 2), Change("Area", 1)>>,
     <<AddCircle, Change("Damage", 1), Change("Area", 1)>>,
     <<AddCircle, Change("Damage", 3), Change("Area", 2)>> >>

LimitBreaks ==
  << <<Change("Damage", 2)>>, <<Change("Area", 2)>>,
     <<Change("Duration", 2)>>, <<Change("Cooldown", -2)>> >>

LimitBreakSet == {LimitBreaks[i] : i \in 1..Len(LimitBreaks)}

\* The weapon choices offered for an inventory weapon of this level:
\* "progression.get(weapon_config.level as usize - 1)" below the maximum
\* level, every limit break from there on.
generate_weapon_upgrades(level) ==
  IF level < MAX_WEAPON_LEVEL
  THEN IF level <= Len(Progression) THEN {Progression[level]} ELSE {}
  ELSE LimitBreakSet

\* "if level < progression.len() { vec![progression[level as usize]] }
\*  else { limit_breaks.to_vec() }"
get_next_upgrades(level) ==
  IF level < Len(Progression) THEN {Progression[level + 1]} ELSE LimitBreakSet

\* The weapon as the upgrade systems see it.
Weapon ==
  [level |-> IF pipeline = "inventory" THEN invLevel ELSE metaLevel,
   damage_bonus |-> damage_bonus, area_bonus |-> area_bonus,
   cooldown_bonus |-> cooldown_bonus, patterns |-> patterns]

\* An upgrade that overwrites the bonus with the change's value.
ApplyChangeOverwrite(w, c) ==
  CASE c.kind = "AddCircle" -> [w EXCEPT !.patterns = Append(@, "Banishment")]
    [] c.kind = "Damage" -> [w EXCEPT !.damage_bonus = c.value]
    [] c.kind = "Area" -> [w EXCEPT !.area_bonus = c.value]
    [] c.kind = "Cooldown" -> [w EXCEPT !.cooldown_bonus = c.value]
    [] OTHER -> w

\* One change of handle_weapon_upgrade: a new circle is pushed, a stat bonus
\* is added to the weapon's bonus (Duration has no component to change).
ApplyChange(w, c) ==
  CASE c.kind = "AddCircle" -> [w EXCEPT !.patterns = Append(@, "Banishment")]
    [] c.kind = "Damage" -> [w EXCEPT !.damage_bonus = @ + c.value]
    [] c.kind = "Area" -> [w EXCEPT !.area_bonus = @ + c.value]
    [] c.kind = "Cooldown" -> [w EXCEPT !.cooldown_bonus = @ + c.value]
    [] OTHER -> w

RECURSIVE ApplyChanges(_, _)
ApplyChanges(w, cs) ==
  IF cs = <<>> THEN w ELSE ApplyChanges(ApplyChange(w, Head(cs)), Tail(cs))

\* handle_weapon_upgrade for one event: "weapon_config.level += 1", then the
\* changes of the upgrade.
UpgradeOne(w, ev) == ApplyChanges([w EXCEPT !.level = @ + 1], ev)

RECURSIVE UpgradeAll(_, _)
UpgradeAll(w, evs) ==
  IF evs = <<>> THEN w ELSE UpgradeAll(UpgradeOne(w, Head(evs)), Tail(evs))

\* apply_common_weapon_upgrades: only the stat changes.
CommonChanges(ev) ==
  SelectSeq(ev, LAMBDA c : c.kind \in {"Damage", "Area", "Cooldown"})

\* apply_magick_circle_weapon_upgrades: only the new circles.
CircleChanges(ev) == SelectSeq(ev, LAMBDA c : c.kind = "AddCircle")

RECURSIVE ChangesOf(_, _)
ChangesOf(evs, part) ==
  IF evs = <<>> THEN <<>>
  ELSE (IF part = "common" THEN CommonChanges(Head(evs))
        ELSE CircleChanges(Head(evs))) \o ChangesOf(Tail(evs), part)

\* Confirmation events not yet read by every system of the pipeline.
Pending ==
  IF pipeline = "inventory" THEN Len(upgEvents)
  ELSE IF Len(levelQ) >= Len(commonQ) /\ Len(levelQ) >= Len(circleQ)
       THEN Len(levelQ)
  ELSE IF Len(commonQ) >= Len(circleQ) THEN Len(commonQ)
  ELSE Len(circleQ)

\* The choices a confirmation can carry for the weapon as it stands.
Choices ==
  IF pipeline = "inventory" THEN generate_weapon_upgrades(invLevel)
  ELSE get_next_upgrades(metaLevel)

\* A confirmation event is sent ("upgrade_events.send(..)"); every reader of
\* the event type will see it.
confirm_upgrade ==
  /\ Pending < MaxPending
  /\ Weapon.level < MaxUpgradeLevel
  /\ \E c \in Choices :
       /\ IF pipeline = "inventory"
          THEN /\ upgEvents' = Append(upgEvents, c)
               /\ UNCHANGED <<levelQ, commonQ, circleQ>>
          ELSE /\ levelQ' = Append(levelQ, c)
               /\ commonQ' = Append(commonQ, c)
               /\ circleQ' = Append(circleQ, c)
               /\ UNCHANGED upgEvents
       /\ IF Pending = 0
          THEN upgBase' = Weapon /\ upgSent' = <<c>>
          ELSE upgBase' = upgBase /\ upgSent' = Append(upgSent, c)
  /\ UNCHANGED <<combatVars, extraVars, gameState, nextState, patterns, xpVars, pipeline,
                 invLevel, metaLevel, damage_bonus, area_bonus, cooldown_bonus>>

handle_weapon_upgrade ==
  /\ pipeline = "inventory"
  /\ upgEvents # <<>>
  /\ LET w == UpgradeAll(Weapon, upgEvents)
     IN /\ invLevel' = w.level
        /\ damage_bonus' = w.damage_bonus
        /\ area_bonus' = w.area_bonus
        /\ cooldown_bonus' = w.cooldown_bonus
        /\ patterns' = w.patterns
  /\ upgEvents' = <<>>
  /\ UNCHANGED <<combatVars, extraVars, gameState, nextState, xpVars, pipeline, metaLevel,
                 levelQ, commonQ, circleQ, upgBase, upgSent>>

\* "meta.level += 1" for every event read.
update_weapon_level ==
  /\ pipeline = "config"
  /\ levelQ # <<>>
  /\ metaLevel' = metaLevel + Len(levelQ)
  /\ levelQ' = <<>>
  /\ UNCHANGED <<combatVars, extraVars, gameState, nextState, patterns, xpVars, pipeline,
                 invLevel, upgEvents, commonQ, circleQ, upgBase, upgSent,
                 damage_bonus, area_bonus, cooldown_bonus>>

apply_common_weapon_upgrades ==
  /\ pipeline = "config"
  /\ commonQ # <<>>
  /\ LET w == ApplyChanges(Weapon, ChangesOf(commonQ, "common"))
     IN /\ damage_bonus' = w.damage_bonus
        /\ area_bonus' = w.area_bonus
        /\ cooldown_bonus' = w.cooldown_bonus
  /\ commonQ' = <<>>
  /\ UNCHANGED <<combatVars, extraVars, gameState, nextState, patterns, xpVars, pipeline,
                 invLevel, metaLevel, upgEvents, levelQ, circleQ, upgBase,
                 upgSent>>

apply_magick_circle_weapon_upgrades ==
  /\ pipeline = "config"
  /\ circleQ # <<>>
  /\ patterns' = ApplyChanges(Weapon, ChangesOf(circleQ, "circle")).patterns
  /\ circleQ' = <<>>
  /\ UNCHANGED <<combatVars, extraVars, gameState, nextState, xpVars, pipeline, invLevel,
                 metaLevel, upgEvents, levelQ, commonQ, upgBase, upgSent,
                 damage_bonus, area_bonus, cooldown_bonus>>

\* The two generations of the upgrade pipeline the source carries.
Pipelines == {"inventory", "config"}

InitUpgrade ==
  /\ InitWorld(CollisionLate, 1, <<"Banishment">>, PlayerMaxHealth, 0)
  /\ InitExperience
  /\ \E pl \in Pipelines : InitWeapon(pl)
  /\ InitExtra

NextUpgrade ==
  \/ confirm_upgrade
  \/ handle_weapon_upgrade
  \/ update_weapon_level
  \/ apply_common_weapon_upgrades
  \/ apply_magick_circle_weapon_upgrades

SpecUpgrade == InitUpgrade /\ [][NextUpgrade]_vars

\* ------------------------------------------------------- upgrade choices
\* Luck values, random draws (in percent of the unit interval) and the
\* inventories generate_choices is called with.
Lucks == {0, DefaultLuck, 50}
Rolls == {0, 39, 40, 99}
Inventories == UNION {[1..n -> 1..MaxInvLevel] : n \in 1..MaxWeapons}

\* "if rng.gen::<f32>() < (luck.0 as f32) * LUCK_FACTOR { 4 } else { 3 }"
calculate_count(luck, roll) == IF roll < luck * LuckFactorPct THEN 4 ELSE 3

\* An entry of the choice list; slot tells equal upgrades of two weapons apart.
Choice(kind, slot, upgrade) == [kind |-> kind, slot |-> slot, upgrade |-> upgrade]

generate_generic_choices ==
  {Choice("Generic", 0, <<Change("HealthPickup", 20)>>),
   Choice("Generic", 0, <<Change("ResourcePickup", 100)>>)}

\* "for weapon_config in &inventory.weapons { ... upgrades.push(...) }"
InventoryUpgrades(inv) ==
  UNION {{Choice("Weapon", i, u) : u \in generate_weapon_upgrades(inv[i])} :
         i \in 1..Len(inv)}

\* "iter.into_iter().choose_multiple(rng, count)": count elements, or all of
\* them when there are fewer.
select_random_owned(S, count) ==
  {T \in SUBSET S : Cardinality(T) = Min(count, Cardinality(S))}

generate_choices ==
  /\ chCount = 0
  /\ LET count == calculate_count(chLuck, chRoll)
         choices == InventoryUpgrades(chInv)
         len == Cardinality(choices)
     IN  /\ chCount' = count
         /\ chOut' \in
              IF len > count THEN select_random_owned(choices, count)
              ELSE IF len < count
              THEN {choices \cup g :
                      g \in select_random_owned(generate_generic_choices, count - len)}
              ELSE {choices}
  /\ UNCHANGED <<baseVars, chLuck, chRoll, chInv, fireVars, lookupVars, menuVars, geoVars, orbVars, collisionVars, sessionVars>>

InitChoosing ==
  /\ InitWorld(CollisionLate, 1, <<"Banishment">>, PlayerMaxHealth, 0)
  /\ InitExperience
  /\ InitWeapon("inventory")
  /\ \E l \in Lucks, r \in Rolls, inv \in Inventories : InitChoices(l, r, inv)
  /\ InitFired
  /\ InitLookup
  /\ InitMenu
  /\ InitGeo
  /\ InitOrbs
  /\ InitCollision("physics", PlayerMaxHealth)
  /\ InitSession(<<>>, StartTime, PlayerMaxHealth, 0)
  /\ InitTimers(StartTime, 0, 0)

SpecChoices == InitChoosing /\ [][generate_choices]_vars

\* ------------------------------------------------------ the weapon fires
\* area.base_radius * (100 + area_bonus)/100 * area_multiplier.factor, in
\* hundredths of a unit; the product is not rounded.
EffectiveRadius(base, bonus, multPct) == (base * (100 + bonus) * multPct) \div 100

\* Every sequence of at most n limit breaks.
BreakSeqs(n) == UNION {[1..k -> LimitBreakSet] : k \in 0..n}

\* The weapons the upgrade path leads to: the starting weapon after the first
\* k progression upgrades, and after the last of them any limit breaks.
ReachableWeapons ==
  LET start == [level |-> 1, damage_bonus |-> 0, area_bonus |-> 0,
                cooldown_bonus |-> 0, patterns |-> <<"Banishment">>]
  IN  {UpgradeAll(start, SubSeq(Progression, 1, k)) : k \in 0..Len(Progression)}
        \cup {UpgradeAll(start, Progression \o b) : b \in BreakSeqs(MaxBreaks)}

\* A weapon_firing_system that spawns the centred circle only.
FiredAttacksFirstOnly(pats, dmg, radius) ==
  <<[pattern |-> pats[1], damage |-> dmg, radius |-> radius, offset |-> {}]>>

\* "let angle_step = std::f32::consts::TAU / (patterns.len() - 1) as f32"
AngleStep(n) == Tau \div (n - 1)

\* One spawn_magick_circle_attack per pattern, all with the same damage and
\* radius: patterns[0] with no offset angle (None), patterns[1..] with
\* "Some(angle_step * i as f32)" for i = 0, 1, ...
FiredAttacks(pats, dmg, radius) ==
  [i \in 1..Len(pats) |->
     [pattern |-> pats[i], damage |-> dmg, radius |-> radius,
      offset |-> IF i = 1 THEN {} ELSE {AngleStep(Len(pats)) * (i - 2)}]]

\* weapon_firing_system for the one weapon of the player, up to its first
\* volley.
weapon_firing_pass ==
  /\ fired = <<>>
  /\ LET dur == EffectiveCooldown(WeaponBaseDuration, cooldown_bonus,
                                  CooldownReductionPct)
         el == wElapsed + delta
         dmg == EffectiveDamage(WeaponBaseDamage, damage_bonus, DamageMultiplierPct)
         radius == EffectiveRadius(WeaponBaseRadius, area_bonus, AreaMultiplierPct)
     IN  IF el >= dur
         THEN /\ wElapsed' = el % dur
              /\ fired' = FiredAttacks(patterns, dmg, radius)
         ELSE /\ wElapsed' = el
              /\ UNCHANGED fired
  /\ UNCHANGED <<now, delta, order, pc, cmds, panicked, exists, allocated, health,
                 hasLDT, ldtTime, mfd, mfdsp, bound, atkPattern, atkDamage,
                 atkLife, atkLastTick, lastAttack, pierce, touching,
                 dmgOld, dmgNew, bindOld, bindNew, deathOld, deathNew, kills,
                 deathCount, accepted, hdLog, staleCmds, removedAs,
                 gameState, nextState, patterns, damage_bonus, area_bonus,
                 cooldown_bonus, xpVars, upgVars, choicesVars, lookupVars, menuVars, geoVars, orbVars,
                 collisionVars, sessionVars>>

InitFiring ==
  /\ \E w \in ReachableWeapons, d \in Deltas :
       /\ InitWorld(CollisionLate, d, w.patterns, PlayerMaxHealth, 0)
       /\ pipeline = "inventory"
       /\ invLevel = w.level
       /\ metaLevel = w.level
       /\ damage_bonus = w.damage_bonus
       /\ area_bonus = w.area_bonus
       /\ cooldown_bonus = w.cooldown_bonus
       /\ upgBase = w
  /\ upgEvents = <<>>
  /\ levelQ = <<>>
  /\ commonQ = <<>>
  /\ circleQ = <<>>
  /\ upgSent = <<>>
  /\ InitExperience
  /\ InitExtra

SpecFire == InitFiring /\ [][weapon_firing_pass]_vars

\* ------------------------------------------------------ collision events
\* "if projectile_query.contains(*e1) { Some(*e1) } else if
\*  projectile_query.contains(*e2) { Some(*e2) } else { None }", with every
\* body taken for a projectile.
ProjectileOfAny(live, e1, e2) == e1

\* "if projectile_query.contains(*e1) { Some(*e1) } else if
\*  projectile_query.contains(*e2) { Some(*e2) } else { None }"
ProjectileOf(live, e1, e2) ==
  IF e1 \in ColProjs \cap live THEN e1
  ELSE IF e2 \in ColProjs \cap live THEN e2 ELSE None

\* What one event of the pass did: whether it was a pair of enemies, and
\* whether handling it changed a Health, queued a despawn or a marker, or
\* added to the contact set.
Handled(st, st2, ev) ==
  [st2 EXCEPT !.log = @ \cup {[enemies |-> {ev.e1, ev.e2} \subseteq ColEnemies,
                               changed |-> \/ st2.health # st.health
                                           \/ st2.gone # st.gone
                                           \/ st2.contacts # st.contacts]}]

\* The body of "CollisionEvent::Started(e1, e2, flags) => { ... }"; the SENSOR
\* flag is set when one of the colliders is the damage sensor.
ReadStarted(live, st, ev) ==
  LET enemies == ColEnemies \cap live
      sensor == Sensor \in {ev.e1, ev.e2}
      other == IF ev.e1 = Sensor THEN ev.e2 ELSE ev.e1
      proj == ProjectileOf(live, ev.e1, ev.e2)
      enemy == IF ev.e1 \in enemies THEN ev.e1
               ELSE IF ev.e2 \in enemies THEN ev.e2 ELSE None
      h2 == st.health[enemy] - QuarterHp(ProjectileHitDamage)
  IN  IF sensor
      THEN IF other \in enemies
           THEN [st EXCEPT !.contacts = @ \cup {other}]
           ELSE st
      ELSE IF proj # None /\ enemy # None /\ proj \notin st.processed
           THEN [st EXCEPT !.processed = @ \cup {proj},
                           !.health[enemy] = h2,
                           !.gone = @ \cup {proj} \cup (IF h2 <= 0 THEN {enemy} ELSE {})]
           ELSE st

\* The body of "match collision.collision_type { ... }" of damage_system; d
\* is the frame period in eighths of a second.
ReadTyped(live, st, ev, d) ==
  CASE ev.type = "PlayerEnemy" ->
         [st EXCEPT !.health[Player] = @ - (QuarterHp(ContactRate) * d) \div 8]
    [] ev.type = "ProjectileEnemy" ->
         IF ev.e1 \in ColProjs \cap live /\ ev.e2 \in ColEnemies \cap live
         THEN LET h2 == st.health[ev.e2] - QuarterHp(AttackDamage)
              IN  [st EXCEPT !.health[ev.e2] = h2,
                             !.gone = @ \cup {ev.e1}
                                        \cup (IF h2 <= 0 THEN {ev.e2} ELSE {})]
         ELSE st
    [] OTHER -> st

RECURSIVE ReadEvents(_, _, _, _)
ReadEvents(live, st, evs, d) ==
  IF evs = <<>> THEN st
  ELSE LET ev == Head(evs)
           st2 == IF colHandler = "physics" THEN ReadStarted(live, st, ev)
                  ELSE ReadTyped(live, st, ev, d)
       IN  ReadEvents(live, Handled(st, st2, ev), Tail(evs), d)

\* The pairs of two different bodies, the first of S and the second of T.
Pairs(S, T) == {p \in S \X T : p[1] # p[2]}

Event(p, type) == [e1 |-> p[1], e2 |-> p[2], type |-> type]

\* The Started events rapier can report for the bodies present.
StartedEvents(live) == {Event(p, "Started") : p \in Pairs(live, live)}

\* The typed events the older detection reports for the bodies present.
TypedEvents(live) ==
  LET enemies == ColEnemies \cap live
  IN  {Event(p, "PlayerEnemy") : p \in Pairs({Player}, enemies)}
        \cup {Event(p, "ProjectileEnemy") : p \in Pairs(ColProjs \cap live, enemies)}
        \cup {Event(p, "EnemyEnemy") : p \in Pairs(enemies, enemies)}

EventLists(S) == UNION {[1..n -> S] : n \in 1..MaxEvents}

PassStart == [health |-> colHealth, gone |-> colGone, contacts |-> {},
              processed |-> {}, log |-> {}]

\* The rest of the variables during a collision pass.
CollisionFrame ==
  UNCHANGED <<baseVars, choicesVars, fireVars, lookupVars, menuVars, geoVars, orbVars, colHandler, sessionVars>>

\* handle_collision_events on the events of one frame; tick tells whether the
\* quarter-second boundary of the contact damage fell into this frame.
read_collision_events ==
  /\ colHandler = "physics"
  /\ colHealth[Player] > 0
  /\ \E evs \in EventLists(StartedEvents(Bodies \ colGone)), tick \in BOOLEAN :
       LET st == ReadEvents(Bodies \ colGone, PassStart, evs, 0)
           n == Cardinality(st.contacts)
       IN  /\ colHealth' =
                IF n > 0 /\ tick
                THEN [st.health EXCEPT ![Player] = @ - QuarterHp(ContactDamage) * n]
                ELSE st.health
           /\ colGone' = st.gone
           /\ colLog' = st.log
  /\ CollisionFrame

\* damage_system on the events of one frame of period d.
damage_system ==
  /\ colHandler = "legacy"
  /\ colHealth[Player] > 0
  /\ \E evs \in EventLists(TypedEvents(Bodies \ colGone)), d \in Deltas :
       LET st == ReadEvents(Bodies \ colGone, PassStart, evs, d)
       IN  /\ colHealth' = st.health
           /\ colGone' = st.gone
           /\ colLog' = st.log
  /\ CollisionFrame

InitColliding ==
  /\ InitWorld(CollisionLate, 1, <<"Banishment">>, PlayerMaxHealth, 0)
  /\ InitExperience
  /\ InitWeapon("inventory")
  /\ InitChoices(DefaultLuck, 0, <<1>>)
  /\ InitFired
  /\ InitLookup
  /\ InitMenu
  /\ InitGeo
  /\ InitOrbs
  /\ \E handler \in {"physics", "legacy"}, ph \in PlayerHealths :
       InitCollision(handler, ph)
  /\ InitSession(<<>>, StartTime, PlayerMaxHealth, 0)
  /\ InitTimers(StartTime, 0, 0)

NextCollision ==
  \/ read_collision_events
  \/ damage_system

SpecCollision == InitColliding /\ [][NextCollision]_vars

\* ------------------------------------------------------------ the session
\* The system at the schedule's current position.
SysDue(s) == sysPc \in 1..Len(sysOrder) /\ sysOrder[sysPc] = s

\* A system of the Update schedule takes its turn; nothing it could change
\* touches the state, the clock or the key.
SessionStep(s) ==
  /\ SysDue(s)
  /\ sysPc' = sysPc + 1
  /\ UNCHANGED <<baseVars, choicesVars, fireVars, lookupVars, menuVars, geoVars, orbVars, collisionVars,
                 appState, clock, dt, esc, sysOrder>>

\* The remaining time of the weapon's cooldown timer, of the attack's
\* Lifetime, of its tick interval and of the enemy's damage cooldown.
RemainingAt(cur) ==
  [cooldown |-> EffectiveCooldown(WeaponBaseDuration, 0, CooldownReductionPct) - cdTimer,
   lifetime |-> AttackLifetime - lifeTimer,
   tick |-> TickRate - (cur - last_tick),
   damage |-> DefaultCooldown - (cur - last_damage)]

Remaining == RemainingAt(clock)

\* A sync point applies the queued despawn of the player.
Synced(life) == IF life = "despawned" THEN "gone" ELSE life

\* First, then StateTransition: the virtual clock advances by the frame
\* period d unless it is paused, the keyboard is read, the event buffers are
\* swapped, and the requested state becomes the current one.  The swap waits
\* for a run of the fixed timestep, which a paused clock does not grant.  The
\* commands of the frame before were applied at its end.
begin_frame ==
  /\ sysPc > Len(sysOrder)
  /\ \E d \in Deltas, key \in BOOLEAN :
       LET step == IF paused THEN 0 ELSE d
           to == IF appNext = None THEN appState ELSE appNext
           upd == ~paused
       IN  /\ clock + step <= MaxTime
           /\ dt' = step
           /\ clock' = clock + step
           /\ esc' = key
           /\ evOld' = IF upd THEN evNew ELSE evOld
           /\ evNew' = IF upd THEN <<>> ELSE evNew
           /\ appState' = to
           /\ appNext' = None
           /\ interrupts' = IF to = "LevelUp" /\ appState # "LevelUp"
                            THEN interrupts + 1 ELSE interrupts
           /\ snap' = IF to = "Paused" /\ appState # "Paused" THEN <<RemainingAt(clock + step)>>
                      ELSE IF to # "Paused" /\ appState # "Paused" THEN <<>>
                      ELSE snap
  /\ deathSeen' = IF deathSeen = "thisFrame" THEN "earlier" ELSE deathSeen
  /\ pLife' = Synced(pLife)
  /\ sysPc' = 1
  /\ UNCHANGED <<baseVars, choicesVars, fireVars, lookupVars, menuVars, geoVars, orbVars, collisionVars, paused, sysOrder,
                 pHealth, expCur, expLevel, orbs, evSent, evRead, levelUps,
                 announced, spawned, cdTimer, lifeTimer, last_tick, last_damage,
                 dmgPending>>

\* "if keyboard.just_pressed(KeyCode::Escape) { match *game_state.get() {...} }"
universal_input_system ==
  /\ SessionStep("universal_input_system")
  /\ appNext' = IF esc /\ appState = "Playing" THEN "Paused"
                ELSE IF esc /\ appState = "Paused" THEN "Playing"
                ELSE appNext
  /\ UNCHANGED <<paused, rewardVars, historyVars, timerVars>>

\* A handle_pause_state that leaves the virtual clock running.
PausedClockNever(g, p) == FALSE

\* "GameState::Paused => time.pause()", "GameState::Playing => time.unpause()",
\* "_ => {}"
PausedClock(g, p) ==
  IF g = "Paused" THEN TRUE ELSE IF g = "Playing" THEN FALSE ELSE p

handle_pause_state ==
  /\ SessionStep("handle_pause_state")
  /\ paused' = PausedClock(appState, paused)
  /\ UNCHANGED <<appNext, rewardVars, historyVars, timerVars>>

\* The contact damage of handle_collision_events: n enemies touch the
\* player's damage sensor.
contact_damage ==
  /\ SessionStep("handle_collision_events")
  /\ \E n \in 0..Cardinality(Enemies) :
       pHealth' = IF /\ appState = "Playing"
                     /\ pLife # "gone"
                     /\ n > 0
                     /\ ContactTick(clock, dt)
                  THEN ContactHealth(pHealth, n)
                  ELSE pHealth
  /\ UNCHANGED <<appNext, paused, pLife, expCur, expLevel, orbs, evOld, evNew,
                 evSent, evRead, historyVars, timerVars>>

\* An EntityDeathEvent; exp is the Option exp_value, empty for None.
DeathEvent(id, exp) == [id |-> id, exp |-> exp]

\* death_system: the player at Health <= 0 is marked, announced and ends the
\* run; otherwise each of the k enemies marked for death is announced with
\* its reward.
death_system_step ==
  /\ SessionStep("death_system")
  /\ IF appState # "Playing"
     THEN UNCHANGED <<appNext, pLife, evNew, evSent, deathSeen, announced>>
     ELSE IF pLife # "gone" /\ pHealth <= 0
     THEN /\ pLife' = IF pLife = "alive" THEN "marked" ELSE pLife
          /\ evNew' = Append(evNew, DeathEvent(evSent + 1, {}))
          /\ evSent' = evSent + 1
          /\ appNext' = "GameOver"
          /\ deathSeen' = "thisFrame"
          /\ UNCHANGED announced
     ELSE /\ \E k \in 0..Min(1, MaxKills - Cardinality(announced)) :
               /\ evNew' = IF k = 1
                           THEN Append(evNew, DeathEvent(evSent + 1,
                                                         {EnemyExperienceValue}))
                           ELSE evNew
               /\ evSent' = evSent + k
               /\ announced' = IF k = 1 THEN announced \cup {evSent + 1}
                                ELSE announced
          /\ UNCHANGED <<appNext, pLife, deathSeen>>
  /\ UNCHANGED <<paused, pHealth, expCur, expLevel, orbs, evOld, evRead,
                 levelUps, interrupts, spawned, timerVars>>

\* cleanup_marked_entities: "commands.entity(entity).despawn_recursive()".
cleanup_step ==
  /\ SessionStep("cleanup_marked_entities")
  /\ pLife' = IF appState = "Playing" /\ pLife = "marked" THEN "despawned" ELSE pLife
  /\ UNCHANGED <<appNext, paused, pHealth, expCur, expLevel, orbs, evOld, evNew,
                 evSent, evRead, historyVars, timerVars>>

\* The events of both buffers the reader has not seen.
Unread == SelectSeq(evOld \o evNew, LAMBDA e : e.id > evRead)

\* "for event in death_events.read() { if let Some(exp_value) = ... spawn }";
\* the chain puts a sync point behind this system and behind the next.
spawn_experience_orbs ==
  /\ SessionStep("spawn_experience_orbs")
  /\ IF appState = "Playing"
     THEN LET rewards == SelectSeq(Unread, LAMBDA e : e.exp # {})
          IN  /\ orbs' = orbs + Len(rewards)
              /\ spawned' = spawned \o [i \in 1..Len(rewards) |-> rewards[i].id]
              /\ evRead' = evSent
     ELSE UNCHANGED <<orbs, spawned, evRead>>
  /\ pLife' = Synced(pLife)
  /\ UNCHANGED <<appNext, paused, pHealth, expCur, expLevel, evOld, evNew,
                 evSent, levelUps, interrupts, deathSeen, announced, timerVars>>

\* k of the orbs on the field reach the player this frame.
collect_step ==
  /\ SessionStep("collect_experience_orbs")
  /\ IF appState = "Playing" /\ pLife # "gone"
     THEN \E k \in 0..orbs :
            /\ orbs' = orbs - k
            /\ expCur' = expCur + k * EnemyExperienceValue
     ELSE UNCHANGED <<orbs, expCur>>
  /\ pLife' = Synced(pLife)
  /\ UNCHANGED <<appNext, paused, pHealth, expLevel, evOld, evNew, evSent,
                 evRead, historyVars, timerVars>>

check_level_up_step ==
  /\ SessionStep("check_level_up")
  /\ LET xp_needed == calculate_experience_needed(expLevel)
     IN  IF appState = "Playing" /\ pLife # "gone" /\ expCur >= xp_needed
         THEN /\ expCur' = Banked(expCur, xp_needed)
              /\ expLevel' = expLevel + 1
              /\ appNext' = "LevelUp"
              /\ levelUps' = levelUps + 1
         ELSE UNCHANGED <<expCur, expLevel, appNext, levelUps>>
  /\ UNCHANGED <<paused, pHealth, pLife, orbs, evOld, evNew, evSent, evRead,
                 interrupts, deathSeen, announced, spawned, timerVars>>

\* The level-up menu; confirm: the player confirms a choice this frame.
upgrade_selection_step ==
  /\ SessionStep("handle_upgrade_selection")
  /\ \E confirm \in BOOLEAN :
       appNext' = IF appState = "LevelUp" /\ confirm THEN "Playing" ELSE appNext
  /\ UNCHANGED <<paused, rewardVars, historyVars, timerVars>>

\* The systems of the frame.  The sets Input, Physics, Combat and Cleanup are
\* chained; the experience chain belongs to no set, and so runs before,
\* between or after them.
Gameplay ==
  <<"universal_input_system", "handle_pause_state", "handle_collision_events",
    "death_system", "cleanup_marked_entities">>

XpChain == <<"spawn_experience_orbs", "collect_experience_orbs", "check_level_up">>

SessionSchedules ==
  {SubSeq(Gameplay, 1, k) \o XpChain \o SubSeq(Gameplay, k + 1, Len(Gameplay))
     \o <<"handle_upgrade_selection">> : k \in {0, 3, 4, 5}}

\* The experience the player starts the session with.
StartXps == {0, BaseXp - EnemyExperienceValue}

InitPlaying ==
  /\ InitWorld(CollisionLate, 1, <<"Banishment">>, PlayerMaxHealth, 0)
  /\ InitExperience
  /\ InitWeapon("inventory")
  /\ InitChoices(DefaultLuck, 0, <<1>>)
  /\ InitFired
  /\ InitLookup
  /\ InitMenu
  /\ InitGeo
  /\ InitOrbs
  /\ InitCollision("physics", PlayerMaxHealth)
  /\ \E sched \in SessionSchedules, ph \in PlayerHealths, xp \in StartXps :
       InitSession(sched, StartTime, ph, xp)
  /\ InitTimers(StartTime, 0, 0)

NextSession ==
  \/ begin_frame
  \/ universal_input_system
  \/ handle_pause_state
  \/ contact_damage
  \/ death_system_step
  \/ cleanup_step
  \/ spawn_experience_orbs
  \/ collect_step
  \/ check_level_up_step
  \/ upgrade_selection_step

SpecSession == InitPlaying /\ [][NextSession]_vars

\* ------------------------------------------------------ timers and pause
\* weapon_firing_system: the cooldown timer is ticked by the frame's delta;
\* when it finishes, the attack is spawned anew ("last_tick: 0.0").
weapon_firing_step ==
  /\ SessionStep("weapon_firing_system")
  /\ LET dur == EffectiveCooldown(WeaponBaseDuration, 0, CooldownReductionPct)
         el == cdTimer + dt
     IN  IF appState # "Playing" THEN UNCHANGED <<cdTimer, lifeTimer, last_tick>>
         ELSE IF el >= dur
         THEN /\ cdTimer' = el % dur
              /\ lifeTimer' = 0
              /\ last_tick' = 0
         ELSE /\ cdTimer' = el
              /\ UNCHANGED <<lifeTimer, last_tick>>
  /\ UNCHANGED <<appNext, paused, rewardVars, historyVars, last_damage, dmgPending,
                 snap>>

\* area_effect_system: "if time.elapsed_secs() - area_effect.last_tick >=
\* area_effect.tick_rate { area_effect.last_tick = time.elapsed_secs(); ... }";
\* hit: the enemy is inside the circle.
area_effect_step ==
  /\ SessionStep("area_effect_system")
  /\ IF appState = "Playing" /\ ~Expired(lifeTimer) /\ TickElapsed(last_tick, clock)
     THEN /\ last_tick' = clock
          /\ \E hit \in BOOLEAN : dmgPending' = (dmgPending \/ hit)
     ELSE UNCHANGED <<last_tick, dmgPending>>
  /\ UNCHANGED <<appNext, paused, rewardVars, historyVars, cdTimer, lifeTimer,
                 last_damage, snap>>

\* attack_lifetime_system: "lifetime.timer.tick(time.delta())".
attack_lifetime_step ==
  /\ SessionStep("attack_lifetime_system")
  /\ lifeTimer' = IF appState = "Playing" /\ ~Expired(lifeTimer)
                  THEN TickOnce(lifeTimer, dt) ELSE lifeTimer
  /\ UNCHANGED <<appNext, paused, rewardVars, historyVars, cdTimer, last_tick,
                 last_damage, dmgPending, snap>>

\* handle_damage for the enemy's pending DamageEvent: rejected inside the
\* cooldown, stamped with the current time otherwise.
handle_damage_step ==
  /\ SessionStep("handle_damage")
  /\ IF appState = "Playing" /\ dmgPending
     THEN /\ dmgPending' = FALSE
          /\ last_damage' = IF CooldownRejects(last_damage, clock) THEN last_damage
                            ELSE StampedTime(last_damage, clock)
     ELSE UNCHANGED <<dmgPending, last_damage>>
  /\ UNCHANGED <<appNext, paused, rewardVars, historyVars, cdTimer, lifeTimer,
                 last_tick, snap>>

\* The weapon systems are one chain in no set: they run before the Input set,
\* between Input and Combat, or after Combat.
WeaponChain == <<"weapon_firing_system", "area_effect_system", "attack_lifetime_system">>

PauseSchedules ==
  LET rest == <<"universal_input_system", "handle_pause_state", "handle_damage">>
  IN  {SubSeq(rest, 1, k) \o WeaponChain \o SubSeq(rest, k + 1, Len(rest)) :
         k \in {0, 2, 3}}

\* The ages of the attack at the start.
AttackAges == {0, AttackLifetime - TickRate}

InitPausing ==
  /\ InitWorld(CollisionLate, 1, <<"Banishment">>, PlayerMaxHealth, 0)
  /\ InitExperience
  /\ InitWeapon("inventory")
  /\ InitChoices(DefaultLuck, 0, <<1>>)
  /\ InitFired
  /\ InitLookup
  /\ InitMenu
  /\ InitGeo
  /\ InitOrbs
  /\ InitCollision("physics", PlayerMaxHealth)
  /\ \E sched \in PauseSchedules : InitSession(sched, PauseStart, PlayerMaxHealth, 0)
  /\ \E we \in WeaponTimerStarts, al \in AttackAges : InitTimers(PauseStart, we, al)

NextPause ==
  \/ begin_frame
  \/ universal_input_system
  \/ handle_pause_state
  \/ weapon_firing_step
  \/ area_effect_step
  \/ attack_lifetime_step
  \/ handle_damage_step

SpecPause == InitPausing /\ [][NextPause]_vars

\* --------------------------------------------- the patterns of a circle
\* MagickCircle.patterns is data: the frame's systems, for a weapon that was
\* given any one pattern, or Banishment and a second pattern.
ConfiguredPatterns ==
  {<<p>> : p \in PatternType} \cup {<<"Banishment", p>> : p \in PatternType}

InitPatterns ==
  /\ \E pats \in ConfiguredPatterns :
       InitWorld(CollisionLate, 2, pats, PlayerMaxHealth, 26)
  /\ InitExperience
  /\ InitWeapon("inventory")
  /\ InitExtra

SpecPatterns == InitPatterns /\ [][Next]_vars

\* ------------------------------------------------- the player's Health
\* What the level-up menu, handle_generic_upgrade and the contact damage
\* leave alone.
healthRest == <<combatVars, gameState, nextState, patterns, damage_bonus,
                area_bonus, cooldown_bonus, xpVars, pipeline, invLevel,
                metaLevel, levelQ, commonQ, circleQ, upgBase, upgSent,
                choicesVars, fireVars, lookupVars, menuVars, geoVars, orbVars, collisionVars, frameVars,
                pLife, expCur,
                expLevel, orbs, evOld, evNew, evSent, evRead, historyVars,
                cdTimer, lifeTimer, last_tick, last_damage, dmgPending>>

\* A handle_generic_upgrade that adds the pickup without the cap.
HealedUncapped(cur, amount) == cur + amount

\* "let new_health = (health.current + amount).min(health.maximum);"
Healed(cur, amount) == Min(cur + amount, PlayerMaxHealth)

\* One event of handle_generic_upgrade's loop: a HealthPickup heals, a
\* ResourcePickup and a weapon upgrade leave the Health alone.
HealOne(h, ev) ==
  IF ev[1].kind = "HealthPickup" THEN Healed(h, ev[1].value) ELSE h

RECURSIVE HealAll(_, _)
HealAll(h, evs) ==
  IF evs = <<>> THEN h ELSE HealAll(HealOne(h, Head(evs)), Tail(evs))

\* The level-up menu sends an UpgradeConfirmedEvent for a generic choice or
\* for a weapon upgrade.
confirm_choice ==
  /\ pHealth > 0
  /\ Len(upgEvents) < MaxPending
  /\ \E u \in {c.upgrade : c \in generate_generic_choices} \cup {Progression[1]} :
       upgEvents' = Append(upgEvents, u)
  /\ UNCHANGED <<pHealth, snap, healthRest>>

\* snap: the values of the last "Healing player ... (from {current} to {new})".
handle_generic_upgrade ==
  /\ upgEvents # <<>>
  /\ pHealth' = HealAll(pHealth, upgEvents)
  /\ snap' = <<pHealth, HealAll(pHealth, upgEvents)>>
  /\ upgEvents' = <<>>
  /\ UNCHANGED healthRest

\* handle_collision_events while the player lives: n enemies touch the
\* damage sensor on a contact tick.
player_contact_damage ==
  /\ pHealth > 0
  /\ \E n \in 1..MaxTouching : pHealth' = ContactHealth(pHealth, n)
  /\ UNCHANGED <<upgEvents, snap, healthRest>>

NextHealth ==
  \/ confirm_choice
  \/ handle_generic_upgrade
  \/ player_contact_damage

SpecHealth == InitXP /\ [][NextHealth]_vars

\* ------------------------------------ the systems that look the player up
\* Everything but the player's existence, the abort flag and the lookups.
lookupRest == <<now, delta, order, pc, cmds, allocated, health,
                hasLDT, ldtTime, mfd, mfdsp, bound, atkPattern, atkDamage,
                atkLife, atkLastTick, wElapsed, lastAttack, pierce, touching,
                dmgOld, dmgNew, bindOld, bindNew, deathOld, deathNew, kills,
                deathCount, accepted, hdLog, staleCmds, removedAs,
                gameState, nextState, patterns, damage_bonus, area_bonus,
                cooldown_bonus, xpVars, upgVars, choicesVars, fireVars,
                menuVars, geoVars, orbVars, collisionVars, sessionVars>>

\* The entities a With<Player> query matches.
PlayerQuery == {Player} \cap exists

\* Query::single(): the item, or a panic unless exactly one entity matches.
Single(S) == IF Cardinality(S) = 1 THEN "ok" ELSE "panic"

\* Query::get_single(): Ok(item), or Err unless exactly one entity matches.
GetSingle(S) == IF Cardinality(S) = 1 THEN "ok" ELSE "err"

\* The systems that take the player from a query before their work, and the
\* components each one writes once it has the player.
PlayerWrites ==
  [enemy_movement_intent    |-> {"IntendedMovement"},
   physics_collision_system |-> {"IntendedMovement"},
   enemy_movement           |-> {"Velocity"},
   collision_events         |-> {"Health"},
   vacuum_system            |-> {"Transform"},
   collect_orbs             |-> {"Experience", "ExperienceOrb"},
   update_weapon_positions  |-> {"Transform"}]

PlayerSystems == DOMAIN PlayerWrites

\* How each system takes the player: the two systems of collision.rs unwrap
\* the query, the others match on its Result.
PlayerLookup(s) ==
  IF s \in {"enemy_movement_intent", "physics_collision_system"}
  THEN Single(PlayerQuery)
  ELSE GetSingle(PlayerQuery)

\* One run of such a system: a panic aborts the frame, an Err returns from
\* the system before it has written anything.
player_system(s) ==
  /\ ~panicked
  /\ ran' = s
  /\ panicked' = (PlayerLookup(s) = "panic")
  /\ written' = IF PlayerLookup(s) = "ok" THEN PlayerWrites[s] ELSE {}
  /\ UNCHANGED <<exists, spawnTimer, enemyCount, lookupRest>>

\* Timer::tick of a repeating timer: the elapsed time wraps at the duration
\* and the timer has just finished when it wrapped.
TimerTick(elapsed, d) == (elapsed + d) % SpawnEvery
TimerJustFinished(elapsed, d) == elapsed + d >= SpawnEvery

\* A spawner that does not look at the number of enemies.
BelowCapAlways(count) == TRUE

\* "enemy_query.iter().count() < wave_config.max_enemies as usize"
BelowCap(count) == count < max_enemies

\* spawn_enemies ticks SpawnTimer in its condition, and asks for the player
\* only once the timer has finished with the enemies below the cap; it
\* spawns one enemy then.
spawn_enemies ==
  /\ ~panicked
  /\ \E d \in 1..MaxFrame :
       LET spawns == /\ TimerJustFinished(spawnTimer, d)
                     /\ BelowCap(enemyCount)
                     /\ GetSingle(PlayerQuery) = "ok"
       IN  /\ spawnTimer' = TimerTick(spawnTimer, d)
           /\ written' = {"SpawnTimer"} \cup (IF spawns THEN {"Enemy"} ELSE {})
           /\ enemyCount' = IF spawns THEN enemyCount + 1 ELSE enemyCount
  /\ ran' = "spawn_enemies"
  /\ UNCHANGED <<exists, panicked, lookupRest>>

\* An enemy marked for despawn is despawned.
despawn_enemy ==
  /\ ~panicked
  /\ enemyCount > 0
  /\ enemyCount' = enemyCount - 1
  /\ ran' = "cleanup_marked_entities"
  /\ written' = {}
  /\ UNCHANGED <<exists, panicked, spawnTimer, lookupRest>>

\* The player entity is despawned once it is marked for despawn.
despawn_player ==
  /\ ~panicked
  /\ Player \in exists
  /\ exists' = exists \ {Player}
  /\ ran' = "cleanup_marked_entities"
  /\ written' = {}
  /\ UNCHANGED <<panicked, spawnTimer, enemyCount, lookupRest>>

NextLookup ==
  \/ \E s \in PlayerSystems : player_system(s)
  \/ spawn_enemies
  \/ despawn_player
  \/ despawn_enemy

SpecLookup == InitXP /\ [][NextLookup]_vars

\* ------------------------------------------------------ the level-up menu
\* Everything the menu's systems leave alone.
menuRest == <<combatVars, patterns, damage_bonus, area_bonus, cooldown_bonus,
              xpVars, upgVars, choicesVars, fireVars, lookupVars, geoVars,
              orbVars, collisionVars, sessionVars>>

Interactions == {"None", "Hovered", "Pressed"}

\* spawn_level_up_menu: a button per choice, in the order of the choices,
\* the first one selected; no button has met the pointer yet.
spawn_level_up_menu(n) ==
  [i \in 1..n |-> [selected |-> i = 1, interaction |-> "None", upgrade |-> i]]

\* The pointer's Interaction with each button, as the UI focus wrote it.
Focused(items, inter) ==
  [i \in 1..Len(items) |-> [items[i] EXCEPT !.interaction = inter[i]]]

\* "if !menu_item.selected { menu_item.selected = matches!(interaction,
\*  Interaction::Hovered) }"
Hover(items) ==
  [i \in 1..Len(items) |->
     [items[i] EXCEPT !.selected = @ \/ items[i].interaction = "Hovered"]]

\* "items.iter().position(|(_, item, _)| item.selected).unwrap_or(0)", from 1.
CurrentSelected(items) ==
  IF \E i \in 1..Len(items) : items[i].selected
  THEN CHOOSE i \in 1..Len(items) :
         /\ items[i].selected
         /\ \A j \in 1..(i - 1) : ~items[j].selected
  ELSE 1

\* "(current_selected + items_len - 1) % items_len" for up,
\* "(current_selected + 1) % items_len" for down, from 1.
NewSelected(items, nav) ==
  LET cur == CurrentSelected(items) - 1
      n == Len(items)
  IN  1 + (CASE nav = "up" -> (cur + n - 1) % n
             [] nav = "down" -> (cur + 1) % n
             [] OTHER -> cur)

\* "item.selected = i == new_selected"
Navigate(items, nav) ==
  [i \in 1..Len(items) |->
     [items[i] EXCEPT !.selected = (i = NewSelected(items, nav))]]

\* "(menu_item.selected && (keyboard.just_pressed(Enter) || ..Space))
\*  || *interaction == Interaction::Pressed"
ShouldConfirm(item, enter) ==
  (item.selected /\ enter) \/ item.interaction = "Pressed"

Confirmable(items, enter) ==
  SelectSeq([i \in 1..Len(items) |-> i],
            LAMBDA i : ShouldConfirm(items[i], enter))

\* A confirmation loop that goes on after the first confirmed item.
ConfirmedEvery(items, enter) == Confirmable(items, enter)

\* The items the loop of handle_upgrade_selection sends an event for: it
\* breaks behind the first item that is to be confirmed.
Confirmed(items, enter) ==
  IF Confirmable(items, enter) = <<>> THEN <<>>
  ELSE <<Head(Confirmable(items, enter))>>

\* First, PreUpdate and StateTransition of a frame: the keyboard and the
\* pointer are read, the requested state becomes the current one, and the
\* menu is spawned when that state is LevelUp.
menu_begin_frame ==
  /\ menuPc = 0
  /\ LET to == IF nextState = None THEN gameState ELSE nextState
     IN  /\ gameState' = to
         /\ nextState' = None
         /\ IF to = "LevelUp" /\ gameState # "LevelUp"
            THEN /\ menuNo' = menuNo + 1
                 /\ \E n \in 1..MenuChoices : menuItems' = spawn_level_up_menu(n)
            ELSE /\ menuNo' = menuNo
                 /\ \E inter \in [1..Len(menuItems) -> Interactions] :
                      menuItems' = Focused(menuItems, inter)
  /\ menuEnter' \in BOOLEAN
  /\ menuPc' = 1
  /\ UNCHANGED <<menuSent, menuRest>>

\* check_level_up in the Playing state: "next_state.set(GameState::LevelUp)".
request_level_up ==
  /\ menuPc = 1
  /\ gameState = "Playing"
  /\ \E up \in BOOLEAN :
       nextState' = IF up /\ menuNo < MaxMenus THEN "LevelUp" ELSE nextState
  /\ menuPc' = 0
  /\ UNCHANGED <<gameState, menuNo, menuItems, menuEnter, menuSent, menuRest>>

menu_hover_system ==
  /\ menuPc = 1
  /\ gameState = "LevelUp"
  /\ menuItems' = Hover(menuItems)
  /\ menuPc' = 2
  /\ UNCHANGED <<gameState, nextState, menuNo, menuEnter, menuSent, menuRest>>

\* Enter on an upgrade item is "MenuAction::SelectUpgrade(_) => {}" here.
standard_menu_navigation ==
  /\ menuPc = 2
  /\ gameState = "LevelUp"
  /\ \E nav \in {"up", "down", "none"} :
       menuItems' = IF menuItems = <<>> THEN menuItems
                    ELSE Navigate(menuItems, nav)
  /\ menuPc' = 3
  /\ UNCHANGED <<gameState, nextState, menuNo, menuEnter, menuSent, menuRest>>

\* handle_upgrade_selection with the sync point that follows it in the
\* chain: an event per confirmed item, the menu despawned with its items,
\* and Playing requested.
upgrade_selection_pass ==
  /\ menuPc = 3
  /\ gameState = "LevelUp"
  /\ LET sent == Confirmed(menuItems, menuEnter)
     IN  IF menuItems = <<>> \/ sent = <<>>
         THEN UNCHANGED <<nextState, menuItems, menuSent>>
         ELSE /\ menuSent' = menuSent \o
                   [k \in 1..Len(sent) |->
                      [menu |-> menuNo,
                       upgrade |-> menuItems[sent[k]].upgrade,
                       rivals |-> Len(Confirmable(menuItems, menuEnter))]]
              /\ menuItems' = <<>>
              /\ nextState' = "Playing"
  /\ menuPc' = 0
  /\ UNCHANGED <<gameState, menuNo, menuEnter, menuRest>>

NextMenu ==
  \/ menu_begin_frame
  \/ request_level_up
  \/ menu_hover_system
  \/ standard_menu_navigation
  \/ upgrade_selection_pass

SpecMenu == InitXP /\ [][NextMenu]_vars

\* ------------------------------------------- the detectors of collision.rs
\* Everything the detectors leave alone.
geoRest == <<baseVars, choicesVars, fireVars, lookupVars, menuVars, orbVars,
             collisionVars, sessionVars>>

\* The enemies the detectors are run with; positions are in pixels.
GeoEnemies == {"E1", "E2"}
GeoBodies == <<Player, "E1", "E2">>

Sub(a, b) == <<a[1] - b[1], a[2] - b[2]>>
Plus(a, b) == <<a[1] + b[1], a[2] + b[2]>>
Scaled(a, k) == <<a[1] * k, a[2] * k>>
Dot(a, b) == a[1] * b[1] + a[2] * b[2]

\* "(a - b).length() <= r", on the squares.
Within(a, b, r) == Dot(Sub(a, b), Sub(a, b)) <= r * r

\* "(closest_point_on_line_segment(start, end, point) - point).length() <= r"
\* on the squares: t = clamp(dot / len, 0, len) / len is 0 for dot <= 0, 1
\* for dot >= len^2, and dot / len^2 in between; a segment of length 0
\* returns its start.
SegmentWithin(start, end, point, r) ==
  LET line_vec == Sub(end, start)
      point_vec == Sub(point, start)
      len2 == Dot(line_vec, line_vec)
      dot == Dot(point_vec, line_vec)
  IN  IF len2 = 0 \/ dot <= 0 THEN Within(point, start, r)
      ELSE IF dot >= len2 THEN Within(point, end, r)
      ELSE Dot(point_vec, point_vec) * len2 - dot * dot <= r * r * len2

\* "current_pos" at the start of sub-step k (from 0).
StepPos(p, k) == Plus(projAt[p], Scaled(stepVel[p], k))

\* "let combined_radius = projectile_body.radius + enemy_body.radius"
CombinedRadius == ProjectileRadius + BodyRadius

\* Sub-step k of projectile p reports enemy e: the enemy is within the
\* combined radius of the current position or of the segment to the next.
HitsAt(p, k, e) ==
  \/ Within(bodyAt[e], StepPos(p, k), CombinedRadius)
  \/ SegmentWithin(StepPos(p, k), StepPos(p, k + 1), bodyAt[e], CombinedRadius)

\* The sub-steps and enemies of projectile p in the order of the two loops,
\* and those of them that report a hit.
ProjectileHits(p, es) ==
  SelectSeq([i \in 1..(COLLISION_SUBSTEPS * Len(es)) |->
               [step |-> (i - 1) \div Len(es), enemy |-> es[1 + ((i - 1) % Len(es))]]],
            LAMBDA h : HitsAt(p, h.step, h.enemy))

\* A detector that goes on through the sub-steps after a hit.
ReportedEvery(hits) == hits

\* "return; // Exit early on collision": the first hit is the only one sent.
Reported(hits) == IF hits = <<>> THEN <<>> ELSE <<Head(hits)>>

CollisionEvent(a, b, type) ==
  [entity_a |-> a, entity_b |-> b, collision_type |-> type]

\* The events of one run over the projectiles ps and the enemies es; the
\* return on a hit leaves the function, and with it the loop over the
\* projectiles.
RECURSIVE Detected(_, _)
Detected(ps, es) ==
  IF ps = <<>> THEN <<>>
  ELSE LET sent == Reported(ProjectileHits(Head(ps), es))
       IN  IF sent = <<>> THEN Detected(Tail(ps), es)
           ELSE [i \in 1..Len(sent) |->
                   CollisionEvent(Head(ps), sent[i].enemy, "ProjectileEnemy")]

\* The orders a query can iterate a set of entities in.
Orders(S) ==
  {s \in [1..Cardinality(S) -> S] : \A i, j \in 1..Cardinality(S) : s[i] = s[j] => i = j}

\* The projectiles are fired and the enemies have walked to where they are.
place_bodies ==
  /\ colBy = None
  /\ projAt' \in [Projs -> ProjectileStarts]
  /\ stepVel' \in [Projs -> StepVelocities]
  /\ bodyAt' \in [{Player} \cup GeoEnemies -> BodySpots]
  /\ colOut' = <<>>
  /\ colBy' = "spawn"
  /\ UNCHANGED geoRest

projectile_physics_system ==
  /\ colBy # None
  /\ \E ps \in Orders(Projs), es \in Orders(GeoEnemies) :
       colOut' = Detected(ps, es)
  /\ colBy' = "projectile_physics_system"
  /\ UNCHANGED <<projAt, stepVel, bodyAt, geoRest>>

\* "let min_distance = body_a.radius + body_b.radius + MIN_SEPARATION;
\*  if distance < min_distance"
TooClose(a, b) ==
  Dot(Sub(bodyAt[b], bodyAt[a]), Sub(bodyAt[b], bodyAt[a]))
    < (BodyRadius + BodyRadius + MIN_SEPARATION) * (BodyRadius + BodyRadius + MIN_SEPARATION)

\* "for (i, a) in bodies.iter().enumerate() { for b in bodies[i + 1..].iter()":
\* the pairs in the order of the loops.
BodyPairs(bs) ==
  SelectSeq([k \in 1..(Len(bs) * Len(bs)) |->
               <<bs[1 + ((k - 1) \div Len(bs))], bs[1 + ((k - 1) % Len(bs))]>>],
            LAMBDA pr : \E i, j \in 1..Len(bs) : i < j /\ pr = <<bs[i], bs[j]>>)

\* The kind of a pair the system sends an event for.
PairType(a, b) ==
  IF a \in GeoEnemies /\ b \in GeoEnemies THEN "EnemyEnemy" ELSE "PlayerEnemy"

\* physics_collision_system: an event for every pair of bodies too close.
physics_collision_system ==
  /\ colBy # None
  /\ \E bs \in Orders({Player} \cup GeoEnemies) :
       LET close == SelectSeq(BodyPairs(bs), LAMBDA pr : TooClose(pr[1], pr[2]))
       IN  colOut' = [i \in 1..Len(close) |->
                        CollisionEvent(close[i][1], close[i][2],
                                       PairType(close[i][1], close[i][2]))]
  /\ colBy' = "physics_collision_system"
  /\ UNCHANGED <<projAt, stepVel, bodyAt, geoRest>>

NextGeo ==
  \/ place_bodies
  \/ projectile_physics_system
  \/ physics_collision_system

SpecGeo == InitXP /\ [][NextGeo]_vars

\* --------------------------------------------------- the experience orbs
\* Everything the orbs' systems leave alone.
orbRest == <<baseVars, choicesVars, fireVars, lookupVars, menuVars, geoVars,
             collisionVars, sessionVars>>

Orbs == {"O1", "O2"}

\* spawn_experience_orbs: an orb is spawned for a death event with a reward.
drop_orb ==
  /\ \E o \in Orbs :
       /\ orbLife[o] = "none"
       /\ orbLife' = [orbLife EXCEPT ![o] = "live"]
  /\ UNCHANGED <<orbEvents, orbGain, orbRest>>

\* The physics step reports a contact that started between the player and
\* an orb that has not been despawned; the player is either entity of the
\* event.
orb_contact ==
  /\ Len(orbEvents) < MaxOrbEvents
  /\ \E o \in Orbs, playerFirst \in BOOLEAN :
       /\ orbLife[o] \in {"live", "marked"}
       /\ orbEvents' = Append(orbEvents,
                              IF playerFirst THEN <<Player, o>> ELSE <<o, Player>>)
  /\ UNCHANGED <<orbLife, orbGain, orbRest>>

\* "let (_player, orb) = if *e1 == player_entity { (*e1, *e2) } else if
\*  *e2 == player_entity { (*e2, *e1) } else { continue }"
OrbOf(ev) == IF ev[1] = Player THEN ev[2] ELSE ev[1]

\* How often the loop adds each orb's value: once per event whose orb
\* "orb_query.get(orb)" finds, and the query's Without<MarkedForDespawn>
\* sees the marks as they were before the pass, the inserts being deferred.
Collected(evs, life) ==
  [o \in Orbs |->
     IF life[o] = "live"
     THEN Len(SelectSeq(evs, LAMBDA ev : OrbOf(ev) = o))
     ELSE 0]

\* collect_experience_orbs with the sync point that follows it in the
\* chain: the events are read, the values added and the orbs marked.
collect_orbs_pass ==
  /\ orbEvents # <<>>
  /\ LET got == Collected(orbEvents, orbLife)
     IN  /\ orbGain' = [o \in Orbs |-> orbGain[o] + got[o]]
         /\ orbLife' = [o \in Orbs |-> IF got[o] > 0 THEN "marked" ELSE orbLife[o]]
  /\ orbEvents' = <<>>
  /\ UNCHANGED orbRest

\* cleanup_marked_entities and the sync point behind it.
despawn_orbs ==
  /\ \E o \in Orbs : orbLife[o] = "marked"
  /\ orbLife' = [o \in Orbs |-> IF orbLife[o] = "marked" THEN "gone" ELSE orbLife[o]]
  /\ UNCHANGED <<orbEvents, orbGain, orbRest>>

NextOrbs ==
  \/ drop_orb
  \/ orb_contact
  \/ collect_orbs_pass
  \/ despawn_orbs

SpecOrbs == InitXP /\ [][NextOrbs]_vars

\* ------------------------------------------- level-ups without an end
\* A level-up of the weapon from the menu to the weapon's components: one of
\* the choices offered for its level is confirmed and applied.
level_up_upgrade ==
  /\ Weapon.level < MaxBreakLevel
  /\ upgEvents = <<>> /\ levelQ = <<>> /\ commonQ = <<>> /\ circleQ = <<>>
  /\ \E c \in Choices :
       LET w == UpgradeOne(Weapon, c)
       IN  /\ invLevel' = IF pipeline = "inventory" THEN w.level ELSE invLevel
           /\ metaLevel' = IF pipeline = "config" THEN w.level ELSE metaLevel
           /\ damage_bonus' = w.damage_bonus
           /\ area_bonus' = w.area_bonus
           /\ cooldown_bonus' = w.cooldown_bonus
           /\ patterns' = w.patterns
  /\ UNCHANGED <<combatVars, extraVars, gameState, nextState, xpVars, pipeline,
                 upgEvents, levelQ, commonQ, circleQ, upgBase, upgSent>>

SpecBreaks == InitUpgrade /\ [][level_up_upgrade]_vars

\* ================================================================ claims
\* C1: over a whole run death_system emits at most one EntityDeathEvent for
\* any entity, whatever hits it took on the way.
AtMostOneDeathEvent == \A e \in Ents : deathCount[e] <= 1

\* An enemy killed by damage whose death was announced and which cleanup has
\* since removed.
AtMostOneDeathEventWitness ==
  \E e \in Enemies :
    /\ deathCount[e] = 1
    /\ health[e] <= 0
    /\ e \notin exists
    /\ removedAs[e] = "MarkedForDespawn"

XpBankBelowThreshold ==
  xpLeveled => xpCurrent < calculate_experience_needed(xpLevel)

\* The thresholds of the levels below this one, added up.
RECURSIVE PassedThresholds(_)
PassedThresholds(level) ==
  IF level <= 1 THEN 0
  ELSE calculate_experience_needed(level - 1) + PassedThresholds(level - 1)

\* C4: the experience ever added equals the banked experience plus the
\* thresholds of the levels already passed.
XpConserved == xpAdded = xpCurrent + PassedThresholds(xpLevel)

\* From level 1 with 90 experience, 30 more gave level 2 with 20 banked.
XpConservedWitness ==
  xpLeveled /\ xpLevel = 2 /\ xpCurrent = 20 /\ xpAdded = 120

\* The weapon after one confirmation event has been applied to w.
AppliedOnce(w, ev) == UpgradeOne(w, ev)

\* C6: when the same confirmed choice has been delivered twice and both
\* events have been handled, the weapon is as if it had been applied once.
UpgradeIdempotent ==
  (Pending = 0 /\ Len(upgSent) = 2 /\ upgSent[1] = upgSent[2])
    => Weapon = AppliedOnce(upgBase, upgSent[1])

\* C5: a projectile's pierce_remaining never goes below 0 and is exactly 0
\* when the projectile has been removed because of a hit.  (pierce keeps the
\* value the projectile had when it was despawned.)
PierceExhaustedOnRemoval ==
  \A j \in Projs :
    /\ pierce[j] >= 0
    /\ (j \notin exists /\ removedAs[j] # None) => pierce[j] = 0

\* C7: when handle_damage reads the hits of two distinct area-effect attacks
\* on the same live enemy, emitted in the same tick, it applies both to the
\* enemy's Health.
BothCirclesHit ==
  \A i, j \in 1..Len(hdLog) :
    (i < j /\ hdLog[i].target = hdLog[j].target /\ hdLog[i].live
       /\ hdLog[i].source # hdLog[j].source)
      => hdLog[i].applied /\ hdLog[j].applied

\* C8: death resolution never emits a death event for the player.
NoPlayerDeathEvent == deathCount[Player] = 0

\* The lifecycle steps the lifecycle stages make.
ForwardSteps ==
  {<<"Unspawned", "Active">>, <<"Active", "MarkedForDeath">>,
   <<"MarkedForDeath", "MarkedForDespawn">>, <<"MarkedForDespawn", "Removed">>}

\* C9: an entity's lifecycle only ever moves one step forward along
\* Active -> MarkedForDeath -> MarkedForDespawn -> Removed.
LifecycleForwardOnly ==
  [][\A e \in Ents : Life(e)' # Life(e) => <<Life(e), Life(e)'>> \in ForwardSteps]_vars

\* C10: no system issues a command against an entity that has been removed;
\* an event whose target is gone is skipped.
NoCommandOnRemoved == staleCmds = {}

\* C11: an entity whose Health handle_damage brought to 0 or below in some
\* frame has had its death event emitted and has been despawned by the time
\* the next frame begins.
DeadWithinFrame ==
  \A e \in Ents : \A i \in 1..Len(accepted[e]) :
    (accepted[e][i].was > 0 /\ accepted[e][i].h <= 0 /\ accepted[e][i].t < now)
      => (deathCount[e] >= 1 /\ e \notin exists)

\* The entities that carry a Health component.
WithHealth == {Player} \cup Enemies

\* C18: death_system emits an EntityDeathEvent only for an entity that has
\* Health and whose Health has been brought to 0 or below.
OnlyKillsAnnounced ==
  \A e \in Ents : deathCount[e] >= 1 => (e \in WithHealth /\ health[e] <= 0)

\* C20: a DamageEvent that handle_damage reads for a live target that does
\* not carry LastDamageTime is applied to the target's Health.
UnlimitedWithoutCooldown ==
  \A i \in 1..Len(hdLog) :
    (hdLog[i].live /\ ~hdLog[i].cd) => hdLog[i].applied

\* Two events of one handle_damage pass hit the same enemy, which carries no
\* LastDamageTime, and both have been applied.
UnlimitedWithoutCooldownWitness ==
  \E i, j \in 1..Len(hdLog) :
    /\ i < j /\ hdLog[i].target = hdLog[j].target
    /\ hdLog[i].live /\ ~hdLog[i].cd /\ ~hdLog[j].cd
    /\ hdLog[i].applied /\ hdLog[j].applied


\* C14: generate_choices returns exactly as many choices as calculate_count
\* drew, three or four, for every luck value and every inventory.
ChoicesMatchCount ==
  chCount # 0 => (chCount \in {3, 4} /\ Cardinality(chOut) = chCount)

\* C15: every attack a firing weapon spawns carries the damage
\* base_damage * (1 + damage_bonus/100) * damage multiplier and the radius
\* base_radius * (1 + area_bonus/100) * area multiplier, for every bonus the
\* upgrades can reach.
FiredAsSpecified ==
  \A i \in 1..Len(fired) :
    /\ fired[i].damage * 10000
         = WeaponBaseDamage * (100 + damage_bonus) * DamageMultiplierPct
    /\ fired[i].radius * 100
         = WeaponBaseRadius * (100 + area_bonus) * AreaMultiplierPct

\* C17: handling a collision between two enemies changes no Health, removes
\* or marks no entity and adds nothing to the contact damage.
EnemyPairHarmless ==
  \A r \in colLog : r.enemies => ~r.changed

\* A pair of enemies was handled in a pass in which another event did damage.
EnemyPairHarmlessWitness ==
  \E r, q \in colLog : r.enemies /\ ~r.changed /\ q.changed

\* C12: every increment of Experience.level opens the LevelUp state exactly
\* once, at the state transition that follows it and before any system runs
\* again, whatever else was requested in the same frame.
LevelUpOpensInterrupt ==
  /\ interrupts <= levelUps
  /\ sysPc = 1 => interrupts = levelUps

\* C13: once death_system has seen the player at Health <= 0, the state is
\* GameOver from the next state transition on, whatever else was requested in
\* the same frame.
PlayerDeathEndsRun ==
  deathSeen = "earlier" => appState = "GameOver"

\* C19: every EntityDeathEvent with a reward is consumed by
\* spawn_experience_orbs exactly once: none is spawned for twice, and none
\* leaves the buffers without its orb.
RewardConsumedOnce ==
  \A id \in announced :
    LET times == Cardinality({i \in 1..Len(spawned) : spawned[i] = id})
        buffered == \E i \in 1..Len(evOld \o evNew) : (evOld \o evNew)[i].id = id
    IN  /\ times <= 1
        /\ ~buffered => times = 1

\* C16: while the state is Paused, and at the moment the game resumes, the
\* weapon's cooldown timer, the attack's Lifetime, its tick interval and the
\* enemy's damage cooldown have the remaining time they had when the pause
\* began.
PauseKeepsTimers ==
  (appState = "Paused" \/ (appState = "Playing" /\ sysPc = 1 /\ snap # <<>>))
    => snap = <<Remaining>>

\* The game has resumed from a pause that began after the weapon's timer had
\* run, the attack had ticked and the enemy had been hit.
PauseKeepsTimersWitness ==
  /\ appState = "Playing" /\ sysPc = 1 /\ snap # <<>>
  /\ cdTimer > 0 /\ lifeTimer > 0
  /\ last_tick > PauseStart /\ last_damage > PauseStart

\* C22: a hit that handle_damage rejects because now - last < cooldown changes
\* nothing and is consumed.  For a target with LastDamageTime the pass has
\* the effect of its first hit alone when that hit is outside the cooldown,
\* and no effect at all when it is inside: Health, the timestamp and the
\* queued lifecycle commands are those of the accepted hit only, and the
\* event buffers are empty afterwards, so no later pass reads a rejected hit.
RejectedHitIsDropped ==
  [][(Due = "handle_damage" /\ pc' = pc + 1 /\ ~panicked') =>
       LET evs == dmgOld \o dmgNew
           new == SubSeq(cmds', Len(cmds) + 1, Len(cmds'))
       IN \A t \in exists \cap hasLDT :
            (\E i \in 1..Len(evs) : evs[i].target = t) =>
              LET first == evs[CHOOSE i \in 1..Len(evs) :
                                 /\ evs[i].target = t
                                 /\ \A j \in 1..(i - 1) : evs[j].target # t]
                  inside == now - ldtTime[t] < DefaultCooldown
                  h2 == IF inside THEN health[t] ELSE health[t] - first.amount
              IN /\ health'[t] = h2
                 /\ ldtTime'[t] = IF inside THEN ldtTime[t] ELSE now
                 /\ Life(t)' = Life(t)
                 /\ Cardinality({i \in 1..Len(new) : new[i].e = t}) =
                      IF ~inside /\ h2 <= 0 THEN 1 ELSE 0
                 /\ dmgOld' = <<>> /\ dmgNew' = <<>>]_vars

\* handle_damage has just applied the first of two hits on a live enemy with
\* LastDamageTime and dropped the second: the enemy's Health is the result of
\* the first hit alone.
RejectedHitIsDroppedWitness ==
  \E e \in Enemies \cap exists : \E i, j \in 1..Len(hdLog) :
    /\ i < j
    /\ hdLog[i].target = e /\ hdLog[i].cd /\ hdLog[i].applied
    /\ hdLog[j].target = e /\ ~hdLog[j].applied
    /\ ldtTime[e] = now
    /\ health[e] = accepted[e][Len(accepted[e])].h

\* C23: when handle_damage has processed the tick's damage events, every
\* entity that an applied hit left at Health <= 0 carries MarkedForDeath.
MarkedAfterDamage ==
  [][(Due = "handle_damage" /\ pc' = pc + 1) =>
       \A i \in 1..Len(hdLog') :
         (hdLog'[i].applied /\ health'[hdLog'[i].target] <= 0)
           => hdLog'[i].target \in mfd']_vars

\* C24: every death_system pass that runs announces every entity that is
\* MarkedForDeath at that point and queues its MarkedForDespawn, also in the
\* frame in which the player dies.
DeathPassProcessesAll ==
  [][(Due = "death_system" /\ pc' = pc + 1) =>
       \A e \in mfd \cap exists :
         /\ deathCount'[e] = deathCount[e] + 1
         /\ \E i \in 1..Len(cmds') :
              i > Len(cmds) /\ cmds'[i] = Insert("MarkedForDespawn", e, "death_system")]_vars

ScansTickRateApart ==
  [][(Due = "area_effect_system" /\ pc' = pc + 1) =>
       LET sent == SubSeq(dmgNew', Len(dmgNew) + 1, Len(dmgNew'))
                     \o SubSeq(bindNew', Len(bindNew) + 1, Len(bindNew'))
           scanned == {a \in Attacks : atkLastTick'[a] # atkLastTick[a]}
                        \cup {sent[i].source : i \in 1..Len(sent)}
       IN /\ delta < TickRate
          /\ \A a \in scanned :
               /\ now - atkLastTick[a] >= TickRate
               /\ atkLastTick'[a] = now]_vars

\* A circle has just scanned and sent a DamageEvent to an enemy that already
\* took an earlier hit from it, at least tick_rate before.
ScansTickRateApartWitness ==
  \E a \in Attacks \cap exists : \E e \in Enemies :
    /\ atkLastTick[a] = now
    /\ \E i \in 1..Len(dmgNew) : dmgNew[i].source = a /\ dmgNew[i].target = e
    /\ Len(patterns) = 1
    /\ Len(accepted[e]) >= 1
    /\ accepted[e][Len(accepted[e])].t <= now - TickRate

\* C27: a circle whose pattern is Protection, Invocation or Manifestation
\* scans when its tick elapses but sends no DamageEvent and no BindingEvent;
\* the pass changes no enemy's Health, markers or binding, queues no command
\* and does not panic, and the schedule moves on to the next system.
UnimplementedPatternInert ==
  [][(Due = "area_effect_system" /\ pc' = pc + 1) =>
       LET sent == SubSeq(dmgNew', Len(dmgNew) + 1, Len(dmgNew'))
                     \o SubSeq(bindNew', Len(bindNew) + 1, Len(bindNew'))
       IN \A a \in Attacks \cap exists :
            atkPattern[a] \in {"Protection", "Invocation", "Manifestation"} =>
              /\ \A i \in 1..Len(sent) : sent[i].source # a
              /\ \A e \in Enemies : /\ health'[e] = health[e]
                                    /\ Life(e)' = Life(e)
                                    /\ (e \in bound') = (e \in bound)
              /\ cmds' = cmds
              /\ ~panicked'
              /\ Due' = order[pc + 1] \/ Due' = "end_frame"]_vars

\* A Protection circle and a Banishment circle of one volley have just
\* scanned: the Banishment circle has sent its DamageEvent, the Protection
\* circle nothing.
UnimplementedPatternInertWitness ==
  \E a, b \in Attacks \cap exists :
    /\ atkPattern[a] = "Protection" /\ atkLastTick[a] = now
    /\ atkPattern[b] = "Banishment" /\ atkLastTick[b] = now
    /\ dmgNew # <<>>
    /\ \A i \in 1..Len(dmgNew) : dmgNew[i].source = b
    /\ bindNew = <<>>
    /\ ~panicked

\* C28: the pattern list of a weapon the upgrades lead to is never empty, and
\* in the pass in which the weapon's cooldown elapses weapon_firing_system
\* spawns one attack per pattern, in pattern order: the first with no offset
\* (at the owner's position), the k-th of the n - 1 others at the angle
\* (k - 1) / (n - 1) of a full turn, so that they are evenly spaced.
OneAttackPerPattern ==
  [][LET dur == EffectiveCooldown(WeaponBaseDuration, cooldown_bonus,
                                  CooldownReductionPct)
         n == Len(patterns)
     IN /\ n >= 1
        /\ IF wElapsed + delta >= dur
           THEN /\ Len(fired') = n
                /\ \A i \in 1..n : fired'[i].pattern = patterns[i]
                /\ fired'[1].offset = {}
                /\ \A i \in 2..n :
                     \E angle \in 0..(Tau - 1) :
                       /\ fired'[i].offset = {angle}
                       /\ angle * (n - 1) = (i - 2) * Tau
           ELSE fired' = <<>>]_vars

\* A weapon with three patterns has fired: one centred circle and two circles
\* half a turn apart.
OneAttackPerPatternWitness ==
  /\ Len(patterns) = 3
  /\ Len(fired) = 3
  /\ fired[1].offset = {}
  /\ fired[2].offset = {0}
  /\ fired[3].offset = {Tau \div 2}

\* C29: a weapon's damage_bonus, area_bonus and cooldown_bonus change only
\* in the step in which the upgrade system reads confirmation events, and
\* then by exactly the sum of the Damage, Area and Cooldown deltas of the
\* events it reads; every confirmation is read once, so from 0 at spawn each
\* bonus is the sum of the deltas confirmed and handled so far, and nothing
\* resets it.
BonusIsSumOfDeltas ==
  [][LET RECURSIVE Total(_, _)
         Total(cs, kind) ==
           IF cs = <<>> THEN 0
           ELSE (IF Head(cs).kind = kind THEN Head(cs).value ELSE 0)
                  + Total(Tail(cs), kind)
         RECURSIVE Flat(_)
         Flat(evs) == IF evs = <<>> THEN <<>> ELSE Head(evs) \o Flat(Tail(evs))
         read == IF pipeline = "inventory"
                 THEN (IF upgEvents' = <<>> THEN upgEvents ELSE <<>>)
                 ELSE (IF commonQ' = <<>> THEN commonQ ELSE <<>>)
     IN /\ damage_bonus' = damage_bonus + Total(Flat(read), "Damage")
        /\ area_bonus' = area_bonus + Total(Flat(read), "Area")
        /\ cooldown_bonus' = cooldown_bonus + Total(Flat(read), "Cooldown")
        /\ (Pending' = 0 /\ pipeline = "inventory") =>
             /\ damage_bonus' = upgBase'.damage_bonus + Total(Flat(upgSent'), "Damage")
             /\ area_bonus' = upgBase'.area_bonus + Total(Flat(upgSent'), "Area")
             /\ cooldown_bonus' =
                  upgBase'.cooldown_bonus + Total(Flat(upgSent'), "Cooldown")]_vars

\* The level-4 upgrade (Damage +1, Area +1) was handled on top of the level-2
\* upgrade (Damage +2, Area +1): the damage bonus is 3 and the area bonus 2.
BonusIsSumOfDeltasWitness ==
  /\ Pending = 0
  /\ Len(upgSent) = 1
  /\ upgBase.damage_bonus = 2
  /\ Len(patterns) = 3
  /\ damage_bonus = 3
  /\ area_bonus = 2
  /\ cooldown_bonus = 0

\* C30: the player's Health.current never exceeds Health.maximum: contact
\* damage only lowers it, and handle_generic_upgrade sets it to
\* min(current + amount, maximum) for each confirmed health pickup it reads,
\* which never lowers it; a confirmation changes nothing until it is read.
HealthWithinMaximum ==
  [][LET picks == Cardinality({i \in 1..Len(upgEvents) :
                                 upgEvents[i][1].kind = "HealthPickup"})
     IN /\ pHealth <= PlayerMaxHealth
        /\ pHealth' <= PlayerMaxHealth
        /\ IF upgEvents # <<>> /\ upgEvents' = <<>>
           THEN /\ pHealth' >= pHealth
                /\ \/ pHealth' = pHealth + 20 * picks
                   \/ (pHealth' = PlayerMaxHealth
                       /\ pHealth + 20 * picks > PlayerMaxHealth)
           ELSE pHealth' <= pHealth]_vars

\* A health pickup confirmed at Health 90 has been handled: the Health is at
\* the maximum, not at 110.
HealthWithinMaximumWitness ==
  /\ upgEvents = <<>>
  /\ snap = <<PlayerMaxHealth - 10, PlayerMaxHealth>>
  /\ pHealth = PlayerMaxHealth

\* C21: when no player entity exists, a system that needs the player makes
\* no state change for that tick and does not abort the frame.
NoPlayerIsNoOp ==
  [][(PlayerQuery = {} /\ ran' # "cleanup_marked_entities")
       => /\ ~panicked'
          /\ written' = {}
          /\ spawnTimer' = spawnTimer]_vars

\* C31: every upgrade-selection interrupt ends with exactly one
\* UpgradeConfirmedEvent, for an option of its own menu, however many items
\* met the confirm condition; an open menu has sent none, a closed menu's
\* other choices are gone with it, and the game is on its way back to Playing.
OneConfirmationPerInterrupt ==
  /\ \A m \in 1..menuNo :
       LET evs == SelectSeq(menuSent, LAMBDA e : e.menu = m)
           open == m = menuNo /\ menuItems # <<>>
       IN  IF open THEN evs = <<>>
           ELSE /\ Len(evs) = 1
                /\ evs[1].rivals >= 1
  /\ (menuNo > 0 /\ menuItems = <<>>)
       => \/ gameState = "Playing"
          \/ gameState = "LevelUp" /\ nextState = "Playing"

OneConfirmationPerInterruptWitness ==
  /\ menuNo = 2
  /\ gameState = "Playing"
  /\ Len(menuSent) = 2
  /\ menuSent[1].rivals >= 2
  /\ menuSent[2].upgrade = 3

\* The path of projectile p over the tick comes within the combined radius
\* of enemy e.
SweptNear(p, e) ==
  SegmentWithin(projAt[p], StepPos(p, COLLISION_SUBSTEPS), bodyAt[e], CombinedRadius)

\* C32: in every tick, each projectile whose swept path comes within the
\* combined radius of some enemy has a projectile-enemy collision event in
\* that tick, whatever the other projectiles hit.
EverySweptHitReported ==
  colBy = "projectile_physics_system"
    => \A p \in Projs :
         (\E e \in GeoEnemies : SweptNear(p, e))
           => \E i \in 1..Len(colOut) :
                /\ colOut[i].entity_a = p
                /\ colOut[i].collision_type = "ProjectileEnemy"

\* C33: the sub-stepped detector sends at most one collision event per
\* projectile per tick, the one of the first sub-step that reports a hit.
OneEventPerProjectile ==
  colBy = "projectile_physics_system"
    => \A p \in Projs :
         LET mine == SelectSeq(colOut, LAMBDA ev : ev.entity_a = p)
         IN  /\ Len(mine) <= 1
             /\ Len(mine) = 1
                  => \E k \in 0..(COLLISION_SUBSTEPS - 1) :
                       /\ HitsAt(p, k, mine[1].entity_b)
                       /\ \A j \in 0..(k - 1), e \in GeoEnemies : ~HitsAt(p, j, e)

OneEventPerProjectileWitness ==
  /\ colBy = "projectile_physics_system"
  /\ Len(colOut) = 1
  /\ colOut[1].entity_a = "J1"
  /\ Len(ProjectileHits("J1", <<"E1", "E2">>)) >= 3
  /\ \E k \in 1..(COLLISION_SUBSTEPS - 1) : HitsAt("J1", k, colOut[1].entity_b)

\* C34: the standard collision pass reports a pair of bodies if and only if
\* the distance between their centres is at most the sum of their radii.
ReportedIffOverlapping ==
  colBy = "physics_collision_system"
    => \A a, b \in {Player} \cup GeoEnemies :
         a # b =>
           ((\E i \in 1..Len(colOut) :
               {colOut[i].entity_a, colOut[i].entity_b} = {a, b})
            <=> Within(bodyAt[a], bodyAt[b], BodyRadius + BodyRadius))

\* C35: a weapon at level L below its maximum is offered the progression
\* entry defined for level L + 1, and a weapon at the maximum is offered
\* the limit breaks, at every level-up from there on.
OfferedIsNextTier ==
  IF Weapon.level < MAX_WEAPON_LEVEL
  THEN Choices = {Progression[Weapon.level]}
  ELSE Choices = LimitBreakSet

\* C36: GameStats.enemies_killed equals the number of death events emitted
\* so far for enemies, which are the events that carry a reward; the deaths
\* of attacks and of the player are not counted.
KillsCountEnemyDeaths ==
  LET RECURSIVE Emitted(_)
      Emitted(S) == IF S = {} THEN 0
                    ELSE LET e == CHOOSE x \in S : TRUE
                         IN  deathCount[e] + Emitted(S \ {e})
  IN  /\ kills = Emitted(Enemies)
      /\ \A i \in 1..Len(deathNew) :
           deathNew[i].exp # {} <=> deathNew[i].entity \in Enemies

KillsCountEnemyDeathsWitness ==
  /\ kills = 1
  /\ \E a \in Attacks : deathCount[a] >= 1
  /\ \E e \in Enemies : deathCount[e] = 1 /\ e \notin exists

\* C37: the value of an experience orb is added to the player's Experience
\* at most once, however many collision-start events of the orb and the
\* player are read before the orb is despawned.
OrbCollectedOnce == \A o \in Orbs : orbGain[o] <= 1

\* C38: after any sequence of confirmed upgrades the weapon's effective
\* cooldown base_duration * (100 + cooldown_bonus)/100 * (1 - reduction) is
\* strictly positive; the product is taken before any rounding.
CooldownStaysPositive ==
  WeaponBaseDuration * (100 + cooldown_bonus) * (100 - CooldownReductionPct) > 0

\* C39: the time the elapsed-time cooldowns read (LastDamageTime,
\* AreaEffect.last_tick) does not advance while the game is in the LevelUp
\* state, so a cooldown has the same time left when play resumes as it had
\* when the interrupt opened.
CooldownsFrozenInLevelUp ==
  [][appState = "LevelUp"
       => /\ clock' - last_damage' = clock - last_damage
          /\ clock' - last_tick' = clock - last_tick]_vars

\* C40: the number of live enemies never exceeds WaveConfig.max_enemies:
\* it grows only in spawn_enemies, by one enemy for an expiry of the spawn
\* timer, and only from a count below the cap.
EnemiesWithinCap ==
  [][/\ enemyCount' <= max_enemies
     /\ enemyCount' > enemyCount
          => /\ enemyCount' = enemyCount + 1
             /\ enemyCount < max_enemies
             /\ ran' = "spawn_enemies"
             /\ spawnTimer' < spawnTimer]_vars

EnemiesWithinCapWitness ==
  /\ enemyCount = max_enemies
  /\ ran = "spawn_enemies"
  /\ spawnTimer = 0
  /\ Player \in exists
  /\ written = {"SpawnTimer"}

====
